---- MODULE Spec2Model ----
(***************************************************************************)
(* rag-chatbot-cli: the store service (supabaseService.js), the OpenAI     *)
(* service (openaiService.js) and the commands built on them.              *)
(*                                                                         *)
(* Text is a sequence of characters. The characters that matter to the     *)
(* code are the newline, the space, the backslash and the letters n and s   *)
(* (the split pattern of addDocument is written /\\n\\s*\\n/), and the      *)
(* digits, the sign and a letter for parseInt.                             *)
(***************************************************************************)
EXTENDS Integers, Sequences, FiniteSets, TLC

\* ------------------------------------------------------------- bounds
MaxSplitLen == 7
MaxDocs == 2
MaxIdLen == 2
MaxMatches == 2
MaxSections == 3

\* ------------------------------------------------------------- characters
NL == "NL"
SP == "SP"
BS == "BS"

ContentChar == {NL, SP, BS, "n", "s"}

Strings(alphabet, n) == UNION {[1..k -> alphabet] : k \in 0..n}

\* String.prototype.trim strips white space and line terminators
IsWhitespace(ch) == ch \in {NL, SP}

RECURSIVE trimStart(_)
trimStart(str) ==
    IF str # <<>> /\ IsWhitespace(Head(str)) THEN trimStart(Tail(str)) ELSE str

RECURSIVE trimEnd(_)
trimEnd(str) ==
    IF str # <<>> /\ IsWhitespace(str[Len(str)])
    THEN trimEnd(SubSeq(str, 1, Len(str) - 1))
    ELSE str

trim(str) == trimEnd(trimStart(str))

\* ------------------------------------------------------------- the split of addDocument
\* s* of the pattern: the index of the first character at or after j that is not the letter s
RECURSIVE SkipS(_, _)
SkipS(str, j) ==
    IF j <= Len(str) /\ str[j] = "s" THEN SkipS(str, j + 1) ELSE j

\* /\\n\\s*\\n/ at index q: a backslash, the letter n, a backslash, any number of
\* letters s, a backslash, the letter n. The index after the match, 0 when none.
SeparatorEnd(str, q) ==
    IF q + 2 <= Len(str) /\ str[q] = BS /\ str[q + 1] = "n" /\ str[q + 2] = BS
    THEN LET j == SkipS(str, q + 3)
         IN  IF j + 1 <= Len(str) /\ str[j] = BS /\ str[j + 1] = "n"
             THEN j + 2
             ELSE 0
    ELSE 0

\* String.prototype.split(regexp): p is the start of the current piece, q the scan index
RECURSIVE SplitFrom(_, _, _)
SplitFrom(str, p, q) ==
    IF q > Len(str)
    THEN << SubSeq(str, p, Len(str)) >>
    ELSE LET e == SeparatorEnd(str, q)
         IN  IF e = 0
             THEN SplitFrom(str, p, q + 1)
             ELSE << SubSeq(str, p, q - 1) >> \o SplitFrom(str, e, e)

split(str) == SplitFrom(str, 1, 1)

\* the filter without the trim
KeepSectionUntrimmed(section) == Len(section) > 0

KeepSection(section) == Len(trim(section)) > 0

\* content.split(/\\n\\s*\\n/).filter(section => section.trim().length > 0)
SplitSections(text) == SelectSeq(split(text), KeepSection)

\* ------------------------------------------------------------- state
VARIABLES
    documents,          \* table documents: rows {id, name, content}
    document_sections,  \* table document_sections: rows {document_id, content, embedding}
    nextId,             \* the id the store gives to the next document row
    op,                 \* the handler that runs, or ran last
    pc,                 \* where that handler is
    calls,              \* the requests it has issued to the store and to OpenAI, in order
    outcome,            \* what it returned or threw
    name,               \* addDocument: the name argument
    content,            \* addDocument: the content argument
    documentId,         \* addDocument: let documentId
    sections,           \* addDocument: const sections
    sectionData,        \* addDocument: const sectionData
    i,                  \* addDocument: the loop index
    identifier,         \* findDocumentByNameOrId: the identifier argument
    query,              \* generateResponse: the query argument
    relevantSections,   \* generateResponse: the relevantSections argument
    context,            \* generateResponse: let context
    contextSnippets,    \* generateResponse: what the contextPromises have resolved to
    pending,            \* generateResponse: the contextPromises not yet settled
    queryEmbedding,     \* searchDocumentSections: the queryEmbedding argument
    matchThreshold,     \* searchDocumentSections: the matchThreshold argument
    matchCount,         \* searchDocumentSections: the matchCount argument
    caller,             \* the function that awaits the handler that runs, "none" at top level
    exitCode,           \* the code process.exit was called with, -1 while the process runs
    chatLoop,           \* startChatLoop: "off" before it, "running" in its loop, "ended" after
    components,         \* the database: which of the required components exist
    config,             \* the configuration store: the keys that hold a value
    supabase,           \* supabaseService.js: let supabase (0 for null, else the instance)
    openai,             \* openaiService.js: let openai (0 for null, else the instance)
    instances           \* the number of clients constructed so far

storeVars == <<documents, document_sections, nextId>>
callVars == <<op, pc, calls, outcome>>
addVars == <<name, content, documentId, sections, sectionData, i>>
findVars == <<identifier>>
genVars == <<query, relevantSections, context, contextSnippets, pending>>
searchVars == <<queryEmbedding, matchThreshold, matchCount>>
frameVars == <<caller, exitCode, chatLoop>>
setupVars == <<components>>
clientVars == <<config, supabase, openai, instances>>
vars == <<storeVars, callVars, addVars, findVars, genVars, searchVars, frameVars, setupVars,
          clientVars>>

None == [kind |-> "none"]
Returned(value) == [kind |-> "returned", value |-> value]
Threw(message, detail) == [kind |-> "threw", message |-> message, detail |-> detail]

Settled == {"idle", "Done", "Failed"}

\* the arguments and locals of a handler are gone once it has returned or thrown:
\* the next call starts from these
NoAddDocument ==
    /\ name' = <<>>
    /\ content' = <<>>
    /\ documentId' = 0
    /\ sections' = <<>>
    /\ sectionData' = <<>>
    /\ i' = 0

NoFindDocument == identifier' = <<>>

NoGenerateResponse ==
    /\ query' = <<>>
    /\ relevantSections' = [defined |-> FALSE, list |-> <<>>]
    /\ context' = [text |-> "", snippets |-> <<>>]
    /\ contextSnippets' = <<>>
    /\ pending' = {}

NoSearch ==
    /\ queryEmbedding' = <<>>
    /\ matchThreshold' = 0
    /\ matchCount' = 0

\* a handler is called at top level, once the one before it has settled, or by the
\* function that awaits it, which has put it in op
CallSite(handler) ==
    IF caller = "none"
    THEN pc \in Settled
    ELSE op = handler /\ pc = "Call"

\* the requests of the function that awaits the handler stay in the log
Log == IF caller = "none" THEN <<>> ELSE calls

\* at top level the locals of the other handlers are gone; those of a caller stay
Forget(reset, kept) == IF caller = "none" THEN reset ELSE UNCHANGED kept

\* what no handler of the services touches
restVars == <<frameVars, setupVars, clientVars>>

\* getOpenAIClient returns a client: the cached one, or a new one when the key is set
OpenAIAvailable == openai # 0 \/ "openaiApiKey" \in config

\* ------------------------------------------------------------- the embedding provider
\* text-embedding-ada-002 gives one vector per text; the vector stands for the text it was made from
Embedding(text) == <<"embedding", text>>

\* ------------------------------------------------------------- addDocument
\* the row built with the initial value of documentId
SectionRowNoDocument(id, section, embedding) ==
    [document_id |-> 0, content |-> section, embedding |-> embedding]

SectionRow(id, section, embedding) ==
    [document_id |-> id, content |-> section, embedding |-> embedding]

\* step 1 without the throw on documentError
AfterMetadataInsertNoThrow(documentError) == "Split"

\* what step 1 leads to: the throw on documentError, or step 2
AfterMetadataInsert(documentError) ==
    IF documentError THEN "Failed" ELSE "Split"

\* the message carrying the loop index itself
EmbedFailureLoopIndex(k) ==
    Threw("Failed to generate embedding for section", k)

\* the message of the throw in the catch around generateEmbeddingFn, for loop index k
EmbedFailure(k) ==
    Threw("Failed to generate embedding for section", k + 1)

\* step 2 going to step 4 at once
AfterSplitSkipsEmbed(n) ==
    IF n = 0 THEN "Done" ELSE "BulkInsert"

\* what step 2 leads to: return documentId when there is no section, or step 3
AfterSplit(n) ==
    IF n = 0 THEN "Done" ELSE "Embed"

\* a loop that goes on after a failed embedding
AfterEmbedGoesOn(embedError, k, n) ==
    IF k + 1 < n THEN "Embed" ELSE "BulkInsert"

\* the loop of step 3 after the call for index k of n sections: the throw in the
\* catch ends it, otherwise the next index, and step 4 after the last
AfterEmbed(embedError, k, n) ==
    IF embedError
    THEN "Failed"
    ELSE IF k + 1 < n THEN "Embed" ELSE "BulkInsert"

\* step 4 without the check of sectionError
AfterSectionInsertUnchecked(sectionError, id) == Returned(id)

\* what step 4 ends with: the throw on sectionError, or return documentId
AfterSectionInsert(sectionError, id) ==
    IF sectionError
    THEN Threw("Failed to insert document sections", 0)
    ELSE Returned(id)

\* an insert that fails after it has stored all rows but the last
InsertSectionsInPart(table, rows, sectionError) ==
    IF sectionError THEN table \o SubSeq(rows, 1, Len(rows) - 1) ELSE table \o rows

\* an insert that leaves the last row out
InsertSectionsButLast(table, rows, sectionError) ==
    IF sectionError THEN table ELSE table \o SubSeq(rows, 1, Len(rows) - 1)

\* client.from('document_sections').insert(sectionData): one statement, all rows or none
InsertSections(table, rows, sectionError) ==
    IF sectionError THEN table ELSE table \o rows

AddDocument(n, c) ==
    /\ CallSite("addDocument")
    /\ nextId <= MaxDocs
    /\ op' = "addDocument"
    /\ pc' = "MetadataInsert"
    /\ calls' = Log
    /\ outcome' = None
    /\ name' = n
    /\ content' = c
    /\ documentId' = 0
    /\ sections' = <<>>
    /\ sectionData' = <<>>
    /\ i' = 0
    /\ Forget(NoFindDocument /\ NoGenerateResponse /\ NoSearch, <<findVars, genVars, searchVars>>)
    /\ UNCHANGED <<storeVars, restVars>>

MetadataInsert ==
    /\ op = "addDocument"
    /\ pc = "MetadataInsert"
    /\ \E documentError \in BOOLEAN :
        /\ calls' = Append(calls, [api |-> "documents.insert", ok |-> ~documentError])
        /\ pc' = AfterMetadataInsert(documentError)
        /\ IF documentError
           THEN /\ outcome' = Threw("Failed to insert document metadata", 0)
                /\ UNCHANGED <<storeVars, documentId>>
           ELSE /\ documents' = documents \cup
                        {[id |-> nextId, name |-> name, content |-> content]}
                /\ nextId' = nextId + 1
                /\ documentId' = nextId
                /\ UNCHANGED <<document_sections, outcome>>
    /\ UNCHANGED <<op, name, content, sections, sectionData, i, findVars, genVars>>
    /\ UNCHANGED <<searchVars, restVars>>

SplitStep ==
    /\ op = "addDocument"
    /\ pc = "Split"
    /\ sections' = SplitSections(content)
    /\ pc' = AfterSplit(Len(sections'))
    /\ IF Len(sections') = 0
       THEN outcome' = Returned(documentId)
       ELSE UNCHANGED outcome
    /\ UNCHANGED <<storeVars, op, calls, name, content, documentId, sectionData, i, findVars, genVars>>
    /\ UNCHANGED <<searchVars, restVars>>

Embed ==
    /\ op = "addDocument"
    /\ pc = "Embed"
    /\ i < Len(sections)
    /\ \E embedError \in BOOLEAN :
        /\ calls' = Append(calls, [api |-> "embeddings.create", ok |-> ~embedError,
                                   index |-> i, input |-> sections[i + 1]])
        /\ IF embedError
           THEN /\ outcome' = EmbedFailure(i)
                /\ pc' = AfterEmbed(embedError, i, Len(sections))
                /\ UNCHANGED <<sectionData, i>>
           ELSE /\ sectionData' = Append(sectionData,
                        SectionRow(documentId, sections[i + 1], Embedding(sections[i + 1])))
                /\ i' = i + 1
                /\ pc' = AfterEmbed(embedError, i, Len(sections))
                /\ UNCHANGED outcome
    /\ UNCHANGED <<storeVars, op, name, content, documentId, sections, findVars, genVars>>
    /\ UNCHANGED <<searchVars, restVars>>

BulkInsert ==
    /\ op = "addDocument"
    /\ pc = "BulkInsert"
    /\ \E sectionError \in BOOLEAN :
        /\ calls' = Append(calls, [api |-> "document_sections.insert", ok |-> ~sectionError,
                                   rows |-> sectionData])
        /\ document_sections' = InsertSections(document_sections, sectionData, sectionError)
        /\ outcome' = AfterSectionInsert(sectionError, documentId)
        /\ pc' = IF outcome'.kind = "returned" THEN "Done" ELSE "Failed"
    /\ UNCHANGED <<documents, nextId, op, addVars, findVars, genVars>>
    /\ UNCHANGED <<searchVars, restVars>>

\* ------------------------------------------------------------- findDocumentByNameOrId
IdChar == {"1", "2", "s", SP}

IsDigit(ch) == ch \in {"0", "1", "2", "3", "4", "5", "6", "7", "8", "9"}

DigitValue(ch) ==
    CASE ch = "0" -> 0 [] ch = "1" -> 1 [] ch = "2" -> 2 [] ch = "3" -> 3 [] ch = "4" -> 4
      [] ch = "5" -> 5 [] ch = "6" -> 6 [] ch = "7" -> 7 [] ch = "8" -> 8 [] ch = "9" -> 9

NaN == [nan |-> TRUE, value |-> 0]
Number(value) == [nan |-> FALSE, value |-> value]

\* the digits at the head of str, read in radix 10 after acc; NaN when there is none
RECURSIVE ParseDigits(_, _, _)
ParseDigits(str, acc, seen) ==
    IF str # <<>> /\ IsDigit(Head(str))
    THEN ParseDigits(Tail(str), 10 * acc + DigitValue(Head(str)), TRUE)
    ELSE IF seen THEN Number(acc) ELSE NaN

\* Number.parseInt(string, 10): leading white space is skipped, a sign is read, then
\* the digits up to the first character that is none; what follows is ignored
parseInt(str) ==
    LET t == trimStart(str)
        signed == t # <<>> /\ Head(t) \in {"-", "+"}
        magnitude == ParseDigits(IF signed THEN Tail(t) ELSE t, 0, FALSE)
    IN  IF magnitude.nan
        THEN NaN
        ELSE IF signed /\ Head(t) = "-"
             THEN Number(0 - magnitude.value)
             ELSE magnitude

DocumentsById(id) == {d \in documents : d.id = id}
DocumentsByName(n) == {d \in documents : d.name = n}

\* a lookup by id that falls back to the name when no row has the id
LookupsWithFallback(potentialId, rows) ==
    IF ~potentialId.nan
    THEN IF rows = {} THEN <<"documents.select.id", "documents.select.name">>
                      ELSE <<"documents.select.id">>
    ELSE <<"documents.select.name">>

\* the queries of one call: the id branch returns or throws before the name query
Lookups(potentialId, rows) ==
    IF ~potentialId.nan
    THEN <<"documents.select.id">>
    ELSE <<"documents.select.name">>

\* the id branch without the check of idError
VerifyIdUnchecked(id, rows, queryError) == Returned(id)

\* select('id').eq('id', potentialId).single(): PGRST116 when no row has the id
VerifyId(id, rows, queryError) ==
    IF queryError
    THEN Threw("Error verifying document ID", id)
    ELSE IF rows = {}
         THEN Threw("Document not found with ID", id)
         ELSE Returned(id)

\* select('id, name').eq('name', identifier)
SearchByName(n, data, queryError) ==
    IF queryError
    THEN Threw("Error searching for document by name", n)
    ELSE IF data = {}
         THEN Threw("Document not found with name", n)
         ELSE IF Cardinality(data) > 1
              THEN Threw("Multiple documents found with name", n)
              ELSE Returned((CHOOSE d \in data : TRUE).id)

FindDocumentByNameOrId(ident) ==
    /\ CallSite("findDocumentByNameOrId")
    /\ \E queryError \in BOOLEAN :
        LET potentialId == parseInt(ident)
            rows == DocumentsById(potentialId.value)
            lookups == Lookups(potentialId, rows)
        IN  /\ calls' = Log \o [k \in 1..Len(lookups) |-> [api |-> lookups[k], ok |-> ~queryError]]
            /\ outcome' = IF ~potentialId.nan
                          THEN VerifyId(potentialId.value, rows, queryError)
                          ELSE SearchByName(ident, DocumentsByName(ident), queryError)
    /\ op' = "findDocumentByNameOrId"
    /\ pc' = IF outcome'.kind = "returned" THEN "Done" ELSE "Failed"
    /\ identifier' = ident
    /\ Forget(NoAddDocument /\ NoGenerateResponse /\ NoSearch, <<addVars, genVars, searchVars>>)
    /\ UNCHANGED <<storeVars, restVars>>

\* ------------------------------------------------------------- getDocumentDetails: its answers
\* what .single() can answer for an id: the row, PGRST116 when no row has the id,
\* another error, no data and no error, or a rejected request
SingleResponses(id) ==
    (IF DocumentsById(id) = {} THEN {"PGRST116"} ELSE {"row"}) \cup {"error", "null", "rejected"}

\* the handler without its check of !data
DocumentDetailsUnchecked(id, response) ==
    CASE response = "PGRST116" -> Threw("Document not found for ID", id)
      [] response = "error" -> Threw("Failed to fetch document details for ID", id)
      [] response = "null" -> Returned("null")
      [] response = "rejected" ->
            Threw("An unexpected error occurred fetching document details", id)
      [] response = "row" ->
            LET d == CHOOSE d \in DocumentsById(id) : TRUE
            IN  Returned([name |-> d.name, content |-> d.content])

\* what getDocumentDetails returns or throws on a response
DocumentDetails(id, response) ==
    CASE response = "PGRST116" -> Threw("Document not found for ID", id)
      [] response = "error" -> Threw("Failed to fetch document details for ID", id)
      [] response = "null" -> Threw("Document not found for ID (query returned null)", id)
      [] response = "rejected" ->
            Threw("An unexpected error occurred fetching document details", id)
      [] response = "row" ->
            LET d == CHOOSE d \in DocumentsById(id) : TRUE
            IN  Returned([name |-> d.name, content |-> d.content])

\* ------------------------------------------------------------- generateResponse
\* A context is its fixed text followed by the snippets appended to it.
Text(fixed) == [text |-> fixed, snippets |-> <<>>]

EmptyString == Text("")
Header == Text("Here are some relevant sections from documents:")
Placeholder == Text("No relevant context found in the documents.")

\* relevantSections is a list, or is missing (undefined, null)
Missing == [defined |-> FALSE, list |-> <<>>]
List(matches) == [defined |-> TRUE, list |-> matches]

\* the context with no else branch: let context = '' stays
ContextBeforeLookupsNoElse(rs) ==
    IF rs.defined /\ Len(rs.list) > 0 THEN Header ELSE EmptyString

\* if (relevantSections && relevantSections.length > 0) ... else ...
ContextBeforeLookups(rs) ==
    IF rs.defined /\ Len(rs.list) > 0 THEN Header ELSE Placeholder

\* what getDocDetailsFn(id) may settle to: a document of that id, nothing, or a throw
DetailResults(id) ==
    {[kind |-> "threw", name |-> <<>>], [kind |-> "nothing", name |-> <<>>]}
        \cup {[kind |-> "document", name |-> d.name] : d \in DocumentsById(id)}

\* getDocumentDetails as the callback: it gives the document or throws
DocumentDetailsResults(id) ==
    {IF DocumentDetails(id, response).kind = "returned"
     THEN [kind |-> "document", name |-> DocumentDetails(id, response).value.name]
     ELSE [kind |-> "threw", name |-> <<>>] : response \in SingleResponses(id)}

\* what getDocDetailsFn may answer: processQuery passes getDocumentDetails, another
\* caller any function
CallbackResults(id) ==
    IF caller = "processQuery" THEN DocumentDetailsResults(id) ELSE DetailResults(id)

\* a snippet that leaves the document_id out when the lookup failed
SnippetAnonymous(section, details) ==
    [label |-> CASE details.kind = "document" -> "From document \"name\":"
                 [] details.kind = "nothing" -> "From document ID id:"
                 [] details.kind = "threw" -> "From document ID id (details unavailable):",
     name |-> details.name,
     id |-> 0,
     content |-> section.content]

\* the template literal each contextPromise resolves to: the label, the ${...} it
\* holds (document.name in the first, section.document_id in the other two, 0 and
\* <<>> standing for the one that is not in the text) and section.content
Snippet(section, details) ==
    [label |-> CASE details.kind = "document" -> "From document \"name\":"
                 [] details.kind = "nothing" -> "From document ID id:"
                 [] details.kind = "threw" -> "From document ID id (details unavailable):",
     name |-> details.name,
     id |-> IF details.kind = "document" THEN 0 ELSE section.document_id,
     content |-> section.content]

\* the contextPromises in the order they settled, read off the log
RECURSIVE CompletionOrder(_)
CompletionOrder(log) ==
    IF log = <<>>
    THEN <<>>
    ELSE IF Head(log).api = "getDocDetailsFn.settled"
         THEN <<Head(log).index>> \o CompletionOrder(Tail(log))
         ELSE CompletionOrder(Tail(log))

\* snippets joined as they settled
JoinInCompletionOrder(snippets, order) ==
    [k \in 1..Len(order) |-> snippets[order[k]]]

\* (await Promise.all(contextPromises)).join(''): the order of contextPromises,
\* whatever the order they settled in
JoinSnippets(snippets, order) == snippets

Unsettled == [label |-> "", name |-> <<>>, id |-> 0, content |-> <<>>]

GenerateResponse(q, rs) ==
    /\ CallSite("generateResponse")
    /\ op' = "generateResponse"
    /\ query' = q
    /\ relevantSections' = rs
    /\ \E hasKey \in {OpenAIAvailable} :
        IF ~hasKey
        THEN /\ outcome' = Threw("Failed to generate response", 0)
             /\ pc' = "Failed"
             /\ calls' = Log
             /\ context' = EmptyString
             /\ contextSnippets' = <<>>
             /\ pending' = {}
        ELSE /\ outcome' = None
             /\ context' = ContextBeforeLookups(rs)
             /\ IF rs.defined /\ Len(rs.list) > 0
                THEN /\ calls' = Log \o [k \in 1..Len(rs.list) |->
                                    [api |-> "getDocDetailsFn", id |-> rs.list[k].document_id]]
                     /\ contextSnippets' = [k \in 1..Len(rs.list) |-> Unsettled]
                     /\ pending' = 1..Len(rs.list)
                     /\ pc' = "Lookups"
                ELSE /\ calls' = Log
                     /\ contextSnippets' = <<>>
                     /\ pending' = {}
                     /\ pc' = "ModelCall"
    /\ Forget(NoAddDocument /\ NoFindDocument /\ NoSearch, <<addVars, findVars, searchVars>>)
    /\ UNCHANGED <<storeVars, restVars>>

\* an await that resumes with the first promise to settle
AfterSettleFirst(remaining) == "ModelCall"

\* await Promise.all(contextPromises) resumes when none is left to settle
AfterSettle(remaining) ==
    IF remaining = {} THEN "ModelCall" ELSE "Lookups"

\* one contextPromise settles; Promise.all resolves with the last, and the snippets
\* are joined onto the context in the order of relevantSections
LookupSettles(k) ==
    /\ op = "generateResponse"
    /\ pc = "Lookups"
    /\ k \in pending
    /\ \E details \in CallbackResults(relevantSections.list[k].document_id) :
        /\ contextSnippets' =
            [contextSnippets EXCEPT ![k] = Snippet(relevantSections.list[k], details)]
        /\ calls' = Append(calls, [api |-> "getDocDetailsFn.settled", index |-> k,
                                   kind |-> details.kind, name |-> details.name])
    /\ pending' = pending \ {k}
    /\ pc' = AfterSettle(pending')
    /\ IF pending' = {}
       THEN context' = [context EXCEPT
                            !.snippets = JoinSnippets(contextSnippets', CompletionOrder(calls'))]
       ELSE UNCHANGED context
    /\ UNCHANGED <<storeVars, addVars, findVars, op, outcome, query, relevantSections>>
    /\ UNCHANGED <<searchVars, restVars>>

\* a second request after a failed one
CompletionRequestsRetried(completionError, ctx, question) ==
    IF completionError
    THEN <<[api |-> "chat.completions.create", ok |-> FALSE,
            context |-> ctx, question |-> question],
           [api |-> "chat.completions.create", ok |-> FALSE,
            context |-> ctx, question |-> question]>>
    ELSE <<[api |-> "chat.completions.create", ok |-> TRUE,
            context |-> ctx, question |-> question]>>

\* the requests generateResponse sends to the model: one, whether it fails or not
CompletionRequests(completionError, ctx, question) ==
    <<[api |-> "chat.completions.create", ok |-> ~completionError,
       context |-> ctx, question |-> question]>>

ChatCompletion ==
    /\ op = "generateResponse"
    /\ pc = "ModelCall"
    /\ \E completionError \in BOOLEAN :
        /\ calls' = calls \o CompletionRequests(completionError, context, query)
        /\ outcome' = IF completionError
                      THEN Threw("Failed to generate response", 0)
                      ELSE Returned("response.choices[0].message.content")
        /\ pc' = IF completionError THEN "Failed" ELSE "Done"
    /\ UNCHANGED <<storeVars, addVars, findVars, op, genVars>>
    /\ UNCHANGED <<searchVars, restVars>>

\* ------------------------------------------------------------- searchDocumentSections
\* similarities and thresholds are in tenths: 7 stands for 0.7
DefaultMatchThreshold == 7
DefaultMatchCount == 5

\* an optional argument, given or left out
Undefined == [defined |-> FALSE, value |-> 0]
Defined(value) == [defined |-> TRUE, value |-> value]
DefaultTo(arg, default) == IF arg.defined THEN arg.value ELSE default

\* the scores the store may compute between two embeddings
Similarities == {6, 8, 9}

\* the texts whose embeddings are in the table
EmbeddedTexts(table) == {table[k].embedding[2] : k \in 1..Len(table)}

\* one result row of match_document_sections
Match(row, similarity) ==
    [document_id |-> row.document_id, content |-> row.content, similarity |-> similarity]

\* the sections that reach the threshold
Candidates(table, similarity, threshold) ==
    {k \in 1..Len(table) : similarity[table[k].embedding[2]] >= threshold}

\* ORDER BY similarity DESC LIMIT n, rows of equal similarity in either order
RECURSIVE TopMatches(_, _, _, _)
TopMatches(table, similarity, ks, n) ==
    IF n = 0 \/ ks = {}
    THEN {<<>>}
    ELSE LET score(k) == similarity[table[k].embedding[2]]
             best == {k \in ks : \A j \in ks : score(j) <= score(k)}
         IN  UNION {{<<Match(table[k], score(k))>> \o rest :
                        rest \in TopMatches(table, similarity, ks \ {k}, n - 1)} : k \in best}

\* the function match_document_sections of the database
match_document_sections(table, similarity, match_threshold, match_count) ==
    TopMatches(table, similarity, Candidates(table, similarity, match_threshold), match_count)

\* the parameters sent without the caller's threshold and limit
MatchParamsDefaults(embedding, threshold, count) ==
    [query_embedding |-> embedding,
     match_threshold |-> DefaultMatchThreshold,
     match_count |-> DefaultMatchCount]

\* the parameter object of client.rpc
MatchParams(embedding, threshold, count) ==
    [query_embedding |-> embedding, match_threshold |-> threshold, match_count |-> count]

SearchDocumentSections(embedding, threshold, count) ==
    /\ CallSite("searchDocumentSections")
    /\ op' = "searchDocumentSections"
    /\ queryEmbedding' = embedding
    /\ matchThreshold' = DefaultTo(threshold, DefaultMatchThreshold)
    /\ matchCount' = DefaultTo(count, DefaultMatchCount)
    /\ LET params == MatchParams(queryEmbedding', matchThreshold', matchCount')
           answers == UNION {match_document_sections(document_sections, similarity,
                                                     params.match_threshold, params.match_count) :
                               similarity \in [EmbeddedTexts(document_sections) -> Similarities]}
       IN  \E rpcError \in BOOLEAN :
            \E data \in IF rpcError THEN {Missing} ELSE {Missing} \cup {List(l) : l \in answers} :
                /\ calls' = Append(Log, [api |-> "rpc.match_document_sections", ok |-> ~rpcError,
                                         params |-> params, data |-> data])
                /\ outcome' = IF rpcError
                              THEN Threw("Failed to search document sections via RPC", 0)
                              ELSE Returned(IF data.defined THEN data.list ELSE <<>>)
    /\ pc' = IF outcome'.kind = "returned" THEN "Done" ELSE "Failed"
    /\ Forget(NoAddDocument /\ NoFindDocument /\ NoGenerateResponse, <<addVars, findVars, genVars>>)
    /\ UNCHANGED <<storeVars, restVars>>

\* ------------------------------------------------------------- deleteDocumentById
\* a filter that selects no row
DeleteWhereNothing(rows, id) == {}

\* the rows .delete().eq('id', documentId) removes
DeleteWhere(rows, id) == {d \in rows : d.id = id}

\* document_sections.document_id references documents(id) ON DELETE CASCADE
CascadeDelete(table, ids) == SelectSeq(table, LAMBDA row : row.document_id \notin ids)

DeleteDocumentById(id) ==
    /\ CallSite("deleteDocumentById")
    /\ op' = "deleteDocumentById"
    /\ documentId' = id
    /\ \E deleteError \in BOOLEAN :
        /\ calls' = Append(Log, [api |-> "documents.delete", ok |-> ~deleteError, id |-> id])
        /\ IF deleteError
           THEN /\ outcome' = Threw("Failed to delete document ID", id)
                /\ pc' = "Failed"
                /\ UNCHANGED <<documents, document_sections>>
           ELSE /\ documents' = documents \ DeleteWhere(documents, id)
                /\ document_sections' = CascadeDelete(document_sections,
                                            {d.id : d \in DeleteWhere(documents, id)})
                /\ outcome' = Returned("undefined")
                /\ pc' = "Done"
    /\ Forget(/\ name' = <<>>
              /\ content' = <<>>
              /\ sections' = <<>>
              /\ sectionData' = <<>>
              /\ i' = 0
              /\ NoFindDocument
              /\ NoGenerateResponse
              /\ NoSearch,
              <<name, content, sections, sectionData, i, findVars, genVars, searchVars>>)
    /\ UNCHANGED <<nextId, restVars>>

\* ------------------------------------------------------------- getDocumentDetails
GetDocumentDetails(id) ==
    /\ CallSite("getDocumentDetails")
    /\ op' = "getDocumentDetails"
    /\ documentId' = id
    /\ \E response \in SingleResponses(id) :
        /\ calls' = Append(Log, [api |-> "documents.select.single", ok |-> response = "row",
                                 id |-> id, response |-> response])
        /\ outcome' = DocumentDetails(id, response)
    /\ pc' = IF outcome'.kind = "returned" THEN "Done" ELSE "Failed"
    /\ Forget(/\ name' = <<>>
              /\ content' = <<>>
              /\ sections' = <<>>
              /\ sectionData' = <<>>
              /\ i' = 0
              /\ NoFindDocument
              /\ NoGenerateResponse
              /\ NoSearch,
              <<name, content, sections, sectionData, i, findVars, genVars, searchVars>>)
    /\ UNCHANGED <<storeVars, restVars>>

\* ------------------------------------------------------------- generateEmbedding
GenerateEmbedding(text) ==
    /\ CallSite("generateEmbedding")
    /\ op' = "generateEmbedding"
    /\ IF ~OpenAIAvailable
       THEN /\ calls' = Log
            /\ outcome' = Threw("Failed to generate embedding", 0)
       ELSE \E embedError \in BOOLEAN :
            /\ calls' = Append(Log, [api |-> "embeddings.create", ok |-> ~embedError,
                                     input |-> text])
            /\ outcome' = IF embedError
                          THEN Threw("Failed to generate embedding", 0)
                          ELSE Returned(Embedding(text))
    /\ pc' = IF outcome'.kind = "returned" THEN "Done" ELSE "Failed"
    /\ Forget(NoAddDocument /\ NoFindDocument /\ NoGenerateResponse /\ NoSearch,
              <<addVars, findVars, genVars, searchVars>>)
    /\ UNCHANGED <<storeVars, restVars>>

\* ------------------------------------------------------------- processQuery
\* the string processQuery returns from its catch
Apology == "Sorry, I encountered an error. Please try again."

\* a pipeline that goes on to the search when the embedding failed
AfterStageFallback(stage, result) ==
    CASE stage = "generateEmbedding" -> "searchDocumentSections"
      [] stage = "searchDocumentSections" ->
            IF result.kind = "threw" THEN "catch" ELSE "generateResponse"
      [] stage = "generateResponse" -> IF result.kind = "threw" THEN "catch" ELSE "return"

\* where processQuery goes when the call it awaits settles: to its catch when the
\* call threw, else to the next statement of the try
AfterStage(stage, result) ==
    IF result.kind = "threw"
    THEN "catch"
    ELSE CASE stage = "generateEmbedding" -> "searchDocumentSections"
           [] stage = "searchDocumentSections" -> "generateResponse"
           [] stage = "generateResponse" -> "return"

ProcessQuery(q) ==
    /\ CallSite("processQuery")
    /\ caller' = "processQuery"
    /\ op' = "generateEmbedding"
    /\ pc' = "Call"
    /\ calls' = Log
    /\ outcome' = None
    /\ query' = q
    /\ relevantSections' = Missing
    /\ context' = EmptyString
    /\ contextSnippets' = <<>>
    /\ pending' = {}
    /\ NoAddDocument
    /\ NoFindDocument
    /\ NoSearch
    /\ UNCHANGED <<storeVars, exitCode, chatLoop, setupVars, clientVars>>

\* const queryEmbedding = await generateEmbedding(query)
EmbedQuery ==
    /\ caller = "processQuery"
    /\ GenerateEmbedding(query)

\* const relevantSections = await searchDocumentSections(queryEmbedding)
SearchSections ==
    /\ caller = "processQuery"
    /\ SearchDocumentSections(queryEmbedding, Undefined, Undefined)

\* const response = await generateResponse(query, relevantSections, getDocumentDetails)
Respond ==
    /\ caller = "processQuery"
    /\ GenerateResponse(query, relevantSections)

\* the awaited call has settled: processQuery takes its value and goes on, returns
\* the response, or returns the apology from its catch
ProcessQueryContinue ==
    /\ caller = "processQuery"
    /\ pc \in {"Done", "Failed"}
    /\ LET next == AfterStage(op, outcome)
           value == IF outcome.kind = "returned" THEN outcome.value ELSE <<>>
       IN  /\ op' = IF next \in {"catch", "return"} THEN "processQuery" ELSE next
           /\ pc' = IF next \in {"catch", "return"} THEN "Done" ELSE "Call"
           /\ caller' = IF next \in {"catch", "return"} THEN "none" ELSE caller
           /\ outcome' = IF next = "catch" THEN Returned(Apology) ELSE outcome
           /\ queryEmbedding' = IF next = "searchDocumentSections" THEN value ELSE queryEmbedding
           /\ relevantSections' = IF next = "generateResponse" THEN List(value)
                                  ELSE relevantSections
    /\ UNCHANGED <<storeVars, calls, addVars, findVars, query, context, contextSnippets, pending,
                   matchThreshold, matchCount, exitCode, chatLoop, setupVars, clientVars>>

\* ------------------------------------------------------------- configuration and setup
\* hasConfig: const requiredKeys
RequiredKeys == {"supabaseUrl", "supabaseKey", "openaiApiKey"}

\* what checkDatabaseSetup looks for
Components == {"vector extension", "documents table", "document_sections table",
               "match_document_sections function"}

\* hasConfig(): every required key holds a value
hasConfig == RequiredKeys \subseteq config

\* ------------------------------------------------------------- checkDatabaseSetup
\* missing.push('... (needs verification)')
NeedsVerification(component) ==
    CASE component = "vector extension" -> "vector extension (needs verification)"
      [] component = "documents table" -> "documents table (needs verification)"
      [] component = "document_sections table" -> "document_sections table (needs verification)"
      [] component = "match_document_sections function" ->
            "match_document_sections function (needs verification)"

\* what the store can answer the request that checks a table or the function:
\* no error, an error that says the thing does not exist, another error (no
\* permission, no connection), or a rejected request
Responses(component) ==
    (IF component \in components THEN {"ok"} ELSE {"does not exist"}) \cup {"error", "rejected"}

\* Method 1, client.sql: the row says exists or not, an error, or a throw
SqlResponses ==
    (IF "vector extension" \in components THEN {"exists"} ELSE {"absent"})
        \cup {"error", "rejected"}

\* Method 2, rpc test_vector_extension, tried when Method 1 threw
TestResponses == {"ok", "function does not exist", "error", "rejected"}

\* Method 3, select embedding, tried when the test function does not exist
TypeResponses ==
    (IF "vector extension" \in components THEN {"ok"} ELSE {"type does not exist"})
        \cup {"error", "rejected"}

\* checks 2 to 4: pushed when the error says "does not exist", or when the
\* request threw
Report(component, response) ==
    CASE response = "does not exist" -> <<component>>
      [] response = "rejected" -> <<NeedsVerification(component)>>
      [] OTHER -> <<>>

\* check 1, its three methods
VectorReport(sql, test, type) ==
    CASE sql = "absent" -> <<"vector extension">>
      [] sql = "rejected" /\ test = "rejected" ->
            <<NeedsVerification("vector extension")>>
      [] sql = "rejected" /\ test = "function does not exist" /\ type = "type does not exist" ->
            <<"vector extension">>
      [] sql = "rejected" /\ test = "function does not exist" /\ type = "rejected" ->
            <<NeedsVerification("vector extension")>>
      [] OTHER -> <<>>

\* the checks whose request met an error other than "does not exist", or threw
FailedChecks(sql, test, type, docs, secs, fn) ==
    {c \in Components :
        \/ c = "vector extension" /\ (sql = "error" \/ {test, type} \cap {"error", "rejected"} # {})
        \/ c = "documents table" /\ docs \in {"error", "rejected"}
        \/ c = "document_sections table" /\ secs \in {"error", "rejected"}
        \/ c = "match_document_sections function" /\ fn \in {"error", "rejected"}}

\* what one run of the four checks gives: the value returned, and the checks that
\* failed on the way
CheckResult(sql, test, type, docs, secs, fn) ==
    LET missing == VectorReport(sql, test, type)
                    \o Report("documents table", docs)
                    \o Report("document_sections table", secs)
                    \o Report("match_document_sections function", fn)
    IN  [outcome |-> Returned([allExist |-> Len(missing) = 0, missing |-> missing]),
         failed |-> FailedChecks(sql, test, type, docs, secs, fn)]

\* every way checkDatabaseSetup can end in the current state: the throw of
\* getSupabaseClient, or the checks with any answers the store can give
CheckResults ==
    {[outcome |-> Threw("Supabase client initialization failed", 0), failed |-> {}]}
    \cup
    (IF {"supabaseUrl", "supabaseKey"} \subseteq config
     THEN UNION {UNION {UNION {
            {CheckResult(sql, test, type, docs, secs, fn) :
                docs \in Responses("documents table"),
                secs \in Responses("document_sections table"),
                fn \in Responses("match_document_sections function")} :
            type \in IF test = "function does not exist" THEN TypeResponses ELSE {"none"}} :
            test \in IF sql = "rejected" THEN TestResponses ELSE {"none"}} :
            sql \in SqlResponses}
     ELSE {})

CheckDatabaseSetup ==
    /\ CallSite("checkDatabaseSetup")
    /\ op' = "checkDatabaseSetup"
    /\ \E result \in CheckResults :
        /\ outcome' = result.outcome
        /\ calls' = Append(Log, [api |-> "checkDatabaseSetup",
                                 ok |-> result.outcome.kind = "returned",
                                 allExist |-> result.outcome.kind = "returned"
                                              /\ result.outcome.value.allExist,
                                 failed |-> result.failed])
    /\ pc' = IF outcome'.kind = "returned" THEN "Done" ELSE "Failed"
    /\ Forget(NoAddDocument /\ NoFindDocument /\ NoGenerateResponse /\ NoSearch,
              <<addVars, findVars, genVars, searchVars>>)
    /\ UNCHANGED <<storeVars, restVars>>

\* ------------------------------------------------------------- executeSetupSql
\* return true when the check says allExist, false when it does not; the catch
\* returns false for a script that cannot be read and for a check that throws
SetupSuccess(sqlError, status) ==
    /\ ~sqlError
    /\ status.kind = "returned"
    /\ status.value.allExist

\* it reads the script, checks the database and creates nothing
ExecuteSetupSql ==
    /\ CallSite("executeSetupSql")
    /\ op' = "executeSetupSql"
    /\ \E sqlError \in BOOLEAN, result \in CheckResults :
        /\ outcome' = Returned(SetupSuccess(sqlError, result.outcome))
        /\ calls' = IF sqlError
                    THEN Append(Log, [api |-> "getSetupSql", ok |-> FALSE])
                    ELSE Log \o <<[api |-> "getSetupSql", ok |-> TRUE],
                                  [api |-> "checkDatabaseSetup",
                                   ok |-> result.outcome.kind = "returned",
                                   allExist |-> result.outcome.kind = "returned"
                                                /\ result.outcome.value.allExist,
                                   failed |-> result.failed]>>
    /\ pc' = "Done"
    /\ Forget(NoAddDocument /\ NoFindDocument /\ NoGenerateResponse /\ NoSearch,
              <<addVars, findVars, genVars, searchVars>>)
    /\ UNCHANGED <<storeVars, restVars>>

\* ------------------------------------------------------------- listDocuments
\* .order('created_at', { ascending: false }): the rows {id, name}, the newest
\* first; ids grow with the time of creation
RECURSIVE NewestFirst(_)
NewestFirst(rows) ==
    IF rows = {}
    THEN <<>>
    ELSE LET newest == CHOOSE d \in rows : \A e \in rows : e.id <= d.id
         IN  <<[id |-> newest.id, name |-> newest.name]>> \o NewestFirst(rows \ {newest})

ListDocuments ==
    /\ CallSite("listDocuments")
    /\ op' = "listDocuments"
    /\ \E listError \in BOOLEAN :
        /\ calls' = Append(Log, [api |-> "documents.select", ok |-> ~listError])
        /\ outcome' = IF listError
                      THEN Threw("Failed to list documents", 0)
                      ELSE Returned(NewestFirst(documents))
    /\ pc' = IF outcome'.kind = "returned" THEN "Done" ELSE "Failed"
    /\ Forget(NoAddDocument /\ NoFindDocument /\ NoGenerateResponse /\ NoSearch,
              <<addVars, findVars, genVars, searchVars>>)
    /\ UNCHANGED <<storeVars, restVars>>

\* ------------------------------------------------------------- the commands add, list, delete
Commands == {"add", "list", "delete"}

\* a command that runs whatever checkDatabaseSetup answered
AfterSetupCheckIgnored(result) == "run"

\* if (!setupStatus.allExist) process.exit(1); the catch exits too
AfterSetupCheck(result) ==
    IF result.kind = "returned" /\ result.value.allExist THEN "run" ELSE "exit"

\* the action of a command starts: a new process, and its check of hasConfig()
Command(cmd, ident) ==
    /\ caller = "none"
    /\ pc \in Settled \cup {"Exited"}
    /\ calls' = <<[api |-> "hasConfig", ok |-> hasConfig]>>
    /\ outcome' = None
    /\ identifier' = IF cmd = "delete" THEN ident ELSE <<>>
    /\ IF hasConfig
       THEN /\ caller' = cmd
            /\ op' = "checkDatabaseSetup"
            /\ pc' = "Call"
            /\ exitCode' = -1
       ELSE /\ caller' = "none"
            /\ op' = cmd
            /\ pc' = "Exited"
            /\ exitCode' = 1
    /\ NoAddDocument
    /\ NoGenerateResponse
    /\ NoSearch
    /\ UNCHANGED <<storeVars, chatLoop, setupVars, clientVars>>

\* runAddFileCommand: await addDocument(documentName, fileContent, generateEmbedding)
AddFile(n, c) ==
    /\ caller = "add"
    /\ AddDocument(n, c)

\* runListDocsCommand: const documents = await listDocuments()
ListDocs ==
    /\ caller = "list"
    /\ ListDocuments

\* runDeleteDocCommand: documentId = await findDocumentByNameOrId(identifier)
FindForDelete ==
    /\ caller = "delete"
    /\ FindDocumentByNameOrId(identifier)

\* runDeleteDocCommand: const details = await getDocumentDetails(documentId)
DetailsForDelete ==
    /\ caller = "delete"
    /\ GetDocumentDetails(documentId)

\* runDeleteDocCommand: await deleteDocumentById(documentId)
ConfirmedDelete ==
    /\ caller = "delete"
    /\ DeleteDocumentById(documentId)

\* the process ends: process.exit(1), or the action returns
Exit(code) ==
    /\ op' = caller
    /\ pc' = "Exited"
    /\ caller' = "none"
    /\ exitCode' = code
    /\ UNCHANGED chatLoop

\* the command goes on to the handler it awaits next
Await(handler) ==
    /\ op' = handler
    /\ pc' = "Call"
    /\ UNCHANGED <<caller, exitCode, chatLoop>>

\* the command runs: runAddFileCommand reads the file and returns if it cannot,
\* runListDocsCommand and runDeleteDocCommand start with a call
Run(cmd, readError) ==
    CASE cmd = "add" -> IF readError THEN Exit(0) ELSE Await("addDocument")
      [] cmd = "list" -> Await("listDocuments")
      [] cmd = "delete" -> Await("findDocumentByNameOrId")

\* what the prompt of a confirmation can give: yes, no (the default), or a
\* rejected prompt (the user interrupts it)
PromptAnswers == {"yes", "no", "cancelled"}

\* a command that deletes whatever the user answered
AfterConfirmIgnored(answer) == "delete"

\* if (!confirmDelete) return; a rejected prompt goes to the catch
AfterConfirm(answer) == IF answer = "yes" THEN "delete" ELSE "return"

\* the call a command awaits has settled
CommandContinue ==
    /\ caller \in Commands
    /\ pc \in {"Done", "Failed"}
    /\ CASE op = "checkDatabaseSetup" ->
                IF AfterSetupCheck(outcome) = "exit"
                THEN Exit(1) /\ UNCHANGED documentId
                ELSE /\ \E readError \in BOOLEAN :
                          Run(caller, readError)
                     /\ UNCHANGED documentId
         [] op = "findDocumentByNameOrId" ->
                IF outcome.kind = "threw"
                THEN Exit(0) /\ UNCHANGED documentId
                ELSE Await("getDocumentDetails") /\ documentId' = outcome.value
         [] op = "getDocumentDetails" ->
                \E answer \in PromptAnswers :
                    /\ calls' = Append(calls, [api |-> "inquirer.prompt", ok |-> answer = "yes",
                                               answer |-> answer])
                    /\ IF AfterConfirm(answer) = "delete"
                       THEN Await("deleteDocumentById")
                       ELSE Exit(0)
                    /\ UNCHANGED documentId
         [] op \in {"addDocument", "listDocuments", "deleteDocumentById"} ->
                Exit(0) /\ UNCHANGED documentId
    /\ op # "getDocumentDetails" => UNCHANGED calls
    /\ UNCHANGED <<storeVars, outcome, name, content, sections, sectionData, i, findVars,
                   genVars, searchVars, setupVars, clientVars>>

\* ------------------------------------------------------------- runConfigureWizard
\* the prompt validates every answer as non-empty and saveConfig stores the three;
\* a prompt that is rejected saves nothing; the function throws in neither case
RunConfigureWizard ==
    /\ CallSite("runConfigureWizard")
    /\ op' = "runConfigureWizard"
    /\ \E answered \in BOOLEAN :
        /\ calls' = Append(Log, [api |-> "inquirer.prompt", ok |-> answered,
                                 answer |-> "credentials"])
        /\ config' = IF answered THEN config \cup RequiredKeys ELSE config
    /\ outcome' = Returned("undefined")
    /\ pc' = "Done"
    /\ Forget(NoAddDocument /\ NoFindDocument /\ NoGenerateResponse /\ NoSearch,
              <<addVars, findVars, genVars, searchVars>>)
    /\ UNCHANGED <<storeVars, frameVars, setupVars, supabase, openai, instances>>

\* ------------------------------------------------------------- the default action
\* components are missing: if (confirmSetup) executeSetupSql, else process.exit(1);
\* a rejected prompt goes to the catch
AfterMissing(answer) == IF answer = "yes" THEN "executeSetupSql" ELSE "exit"

\* if (!success) process.exit(1)
AfterSetup(success) == IF success THEN "startChatLoop" ELSE "exit"

\* the result of hasConfig(), as the action reads it
ConfigChecked == [api |-> "hasConfig", ok |-> hasConfig]

\* the program starts without a command: a new process, and its check of hasConfig()
Start ==
    /\ caller = "none"
    /\ pc \in Settled \cup {"Exited"}
    /\ chatLoop # "running"
    /\ caller' = "start"
    /\ exitCode' = -1
    /\ chatLoop' = "off"
    /\ calls' = <<ConfigChecked>>
    /\ outcome' = None
    /\ op' = IF hasConfig THEN "checkDatabaseSetup" ELSE "runConfigureWizard"
    /\ pc' = "Call"
    /\ NoAddDocument
    /\ NoFindDocument
    /\ NoGenerateResponse
    /\ NoSearch
    /\ UNCHANGED <<storeVars, setupVars, clientVars>>

\* the call the default action awaits has settled
StartContinue ==
    /\ caller = "start"
    /\ pc \in {"Done", "Failed"}
    /\ CASE op = "runConfigureWizard" ->
                /\ calls' = Append(calls, ConfigChecked)
                /\ IF hasConfig THEN Await("checkDatabaseSetup") ELSE Exit(1)
         [] op = "checkDatabaseSetup" ->
                IF outcome.kind = "threw"
                THEN Exit(1) /\ UNCHANGED calls
                ELSE IF outcome.value.allExist
                     THEN Await("startChatLoop") /\ UNCHANGED calls
                     ELSE \E answer \in PromptAnswers :
                            /\ calls' = Append(calls, [api |-> "inquirer.prompt",
                                                       ok |-> answer = "yes",
                                                       answer |-> answer])
                            /\ IF AfterMissing(answer) = "exit"
                               THEN Exit(1)
                               ELSE Await(AfterMissing(answer))
         [] op = "executeSetupSql" ->
                /\ IF AfterSetup(outcome.value) = "exit"
                   THEN Exit(1)
                   ELSE Await(AfterSetup(outcome.value))
                /\ UNCHANGED calls
    /\ UNCHANGED <<storeVars, outcome, addVars, findVars, genVars, searchVars, setupVars,
                   clientVars>>

\* await runConfigureWizard()
ConfigureAtStart ==
    /\ caller = "start"
    /\ RunConfigureWizard

\* const setupStatus = await checkDatabaseSetup()
CheckAtStart ==
    /\ caller = "start"
    /\ CheckDatabaseSetup

\* const success = await executeSetupSql()
SetupAtStart ==
    /\ caller = "start"
    /\ ExecuteSetupSql

\* ------------------------------------------------------------- startChatLoop
\* String.prototype.toLowerCase, on the letters the inputs are made of
LowerChar(ch) ==
    CASE ch = "E" -> "e" [] ch = "X" -> "x" [] ch = "I" -> "i" [] ch = "T" -> "t"
      [] ch = "A" -> "a" [] ch = "D" -> "d" [] OTHER -> ch

toLowerCase(str) == [k \in 1..Len(str) |-> LowerChar(str[k])]

\* a loop that compares the input as it was typed
DispatchRaw(input) ==
    CASE input = <<"e", "x", "i", "t">> -> "exit"
      [] input = <<"a", "d", "d">> -> "handleAddDocument"
      [] OTHER -> "processQuery"

\* const command = input.trim().toLowerCase(): exit, add, or a query
Dispatch(input) ==
    LET command == toLowerCase(trim(input))
    IN  CASE command = <<"e", "x", "i", "t">> -> "exit"
          [] command = <<"a", "d", "d">> -> "handleAddDocument"
          [] OTHER -> "processQuery"

\* how the prompt of the loop can end: with an input, or rejected with a tty
\* error, a cancellation or another error
PromptOutcomes == {"input", "tty error", "canceled", "error"}

\* the catch of the loop: exitRequested = true for a tty error and a cancellation
AfterPromptError(answer) ==
    IF answer \in {"tty error", "canceled"} THEN "exit" ELSE "prompt"

\* the loop begins: let exitRequested = false
StartChatLoop ==
    /\ \/ caller = "start" /\ op = "startChatLoop" /\ pc = "Call"
       \/ caller = "none" /\ pc \in Settled /\ chatLoop # "running"
    /\ chatLoop' = "running"
    /\ caller' = "none"
    /\ op' = "startChatLoop"
    /\ pc' = "idle"
    /\ calls' = Log
    /\ outcome' = None
    /\ NoAddDocument
    /\ NoFindDocument
    /\ NoGenerateResponse
    /\ NoSearch
    /\ UNCHANGED <<storeVars, exitCode, setupVars, clientVars>>

\* await startChatLoop()
ChatAtStart ==
    /\ caller = "start"
    /\ StartChatLoop

\* the prompt of the loop settles and the loop acts on it
ChatInput(input, answer) ==
    /\ chatLoop = "running"
    /\ caller = "none"
    /\ pc \in Settled
    /\ calls' = <<[api |-> "inquirer.prompt", ok |-> answer = "input", answer |-> answer,
                   input |-> IF answer = "input" THEN input ELSE <<>>]>>
    /\ outcome' = None
    /\ LET next == IF answer = "input" THEN Dispatch(input) ELSE AfterPromptError(answer)
       IN  CASE next = "exit" ->
                    /\ chatLoop' = "ended"
                    /\ op' = "startChatLoop"
                    /\ pc' = "Done"
                    /\ UNCHANGED caller
             [] next = "prompt" ->
                    /\ op' = "startChatLoop"
                    /\ pc' = "idle"
                    /\ UNCHANGED <<caller, chatLoop>>
             [] next = "handleAddDocument" ->
                    /\ caller' = "startChatLoop"
                    /\ op' = "addDocument"
                    /\ pc' = "Call"
                    /\ UNCHANGED chatLoop
             [] next = "processQuery" ->
                    /\ caller' = "startChatLoop"
                    /\ op' = "processQuery"
                    /\ pc' = "Call"
                    /\ UNCHANGED chatLoop
    /\ NoAddDocument
    /\ NoFindDocument
    /\ NoGenerateResponse
    /\ NoSearch
    /\ UNCHANGED <<storeVars, exitCode, setupVars, clientVars>>

\* const response = await processQuery(input)
Ask ==
    /\ caller = "startChatLoop"
    /\ ProcessQuery(calls[1].input)

\* handleAddDocument: await addDocument(name, content, generateEmbedding)
HandleAddDocument(n, c) ==
    /\ caller = "startChatLoop"
    /\ AddDocument(n, c)

\* handleAddDocument returns: addDocument has settled, or a prompt for the name or
\* the content was rejected; its catch lets nothing through
HandleAddDocumentReturns ==
    /\ caller = "startChatLoop"
    /\ op = "addDocument"
    /\ pc \in {"Call", "Done", "Failed"}
    /\ caller' = "none"
    /\ pc' = IF pc = "Call" THEN "Failed" ELSE pc
    /\ outcome' = IF pc = "Call" THEN Threw("canceled", 0) ELSE outcome
    /\ UNCHANGED <<storeVars, op, calls, addVars, findVars, genVars, searchVars, exitCode,
                   chatLoop, setupVars, clientVars>>

\* startChatLoop has returned and the default action with it: the process ends
StartReturns ==
    /\ caller = "none"
    /\ chatLoop = "ended"
    /\ op = "startChatLoop"
    /\ pc = "Done"
    /\ exitCode = -1
    /\ op' = "start"
    /\ pc' = "Exited"
    /\ exitCode' = 0
    /\ UNCHANGED <<storeVars, calls, outcome, addVars, findVars, genVars, searchVars, caller,
                   chatLoop, setupVars, clientVars>>

\* ------------------------------------------------------------- the clients
\* a getter that constructs a client on every call
ClientAlwaysNew(cached, fresh) == fresh

\* if (client) return client; else the one just constructed
Client(cached, fresh) == IF cached # 0 THEN cached ELSE fresh

GetSupabaseClient ==
    /\ caller = "none"
    /\ pc \in Settled
    /\ op' = "getSupabaseClient"
    /\ IF Client(supabase, 0) # 0
       THEN /\ outcome' = Returned(Client(supabase, 0))
            /\ calls' = <<>>
            /\ UNCHANGED <<supabase, instances>>
       ELSE IF ~({"supabaseUrl", "supabaseKey"} \subseteq config)
            THEN /\ outcome' = Threw("Missing Supabase configuration.", 0)
                 /\ calls' = <<>>
                 /\ UNCHANGED <<supabase, instances>>
            ELSE \E createError \in BOOLEAN :
                    /\ calls' = <<[api |-> "createClient", ok |-> ~createError]>>
                    /\ IF createError
                       THEN /\ outcome' = Threw("Supabase client initialization failed", 0)
                            /\ UNCHANGED <<supabase, instances>>
                       ELSE /\ instances' = instances + 1
                            /\ supabase' = Client(supabase, instances')
                            /\ outcome' = Returned(supabase')
    /\ pc' = IF outcome'.kind = "returned" THEN "Done" ELSE "Failed"
    /\ NoAddDocument
    /\ NoFindDocument
    /\ NoGenerateResponse
    /\ NoSearch
    /\ UNCHANGED <<storeVars, frameVars, setupVars, config, openai>>

GetOpenAIClient ==
    /\ caller = "none"
    /\ pc \in Settled
    /\ op' = "getOpenAIClient"
    /\ IF Client(openai, 0) # 0
       THEN /\ outcome' = Returned(Client(openai, 0))
            /\ calls' = <<>>
            /\ UNCHANGED <<openai, instances>>
       ELSE IF "openaiApiKey" \notin config
            THEN /\ outcome' = Threw("Missing OpenAI configuration.", 0)
                 /\ calls' = <<>>
                 /\ UNCHANGED <<openai, instances>>
            ELSE /\ calls' = <<[api |-> "new OpenAI", ok |-> TRUE]>>
                 /\ instances' = instances + 1
                 /\ openai' = Client(openai, instances')
                 /\ outcome' = Returned(openai')
    /\ pc' = IF outcome'.kind = "returned" THEN "Done" ELSE "Failed"
    /\ NoAddDocument
    /\ NoFindDocument
    /\ NoGenerateResponse
    /\ NoSearch
    /\ UNCHANGED <<storeVars, frameVars, setupVars, config, supabase>>

\* config.set(key, value) for each entry of configData
SaveConfig(configData) ==
    /\ caller = "none"
    /\ pc \in Settled
    /\ config' = config \cup configData
    /\ UNCHANGED <<storeVars, callVars, addVars, findVars, genVars, searchVars, frameVars,
                   setupVars, supabase, openai, instances>>

\* config.clear()
ClearConfig ==
    /\ caller = "none"
    /\ pc \in Settled
    /\ config' = {}
    /\ UNCHANGED <<storeVars, callVars, addVars, findVars, genVars, searchVars, frameVars,
                   setupVars, supabase, openai, instances>>

\* ------------------------------------------------------------- ingestion
\* the literal text the split pattern matches: \n\\n
Separator == <<BS, "n", BS, BS, "n">>

IngestNames == {<<"n">>}

IngestContents ==
    { <<>>,
      <<NL>>,
      <<SP, NL, NL, SP>>,
      <<"s">>,
      <<"s", NL, NL, "n">>,
      Separator,
      <<"s">> \o Separator \o <<NL>>,
      <<"s">> \o Separator \o <<"n">>,
      <<SP, "s">> \o Separator \o <<"n", NL>> \o Separator \o <<"s">> }

Init ==
    /\ documents = {}
    /\ document_sections = <<>>
    /\ nextId = 1
    /\ op = "none"
    /\ pc = "idle"
    /\ calls = <<>>
    /\ outcome = None
    /\ name = <<>>
    /\ content = <<>>
    /\ documentId = 0
    /\ sections = <<>>
    /\ sectionData = <<>>
    /\ i = 0
    /\ identifier = <<>>
    /\ query = <<>>
    /\ relevantSections = Missing
    /\ context = EmptyString
    /\ contextSnippets = <<>>
    /\ pending = {}
    /\ queryEmbedding = <<>>
    /\ matchThreshold = 0
    /\ matchCount = 0
    /\ caller = "none"
    /\ exitCode = -1
    /\ components = Components
    /\ config = RequiredKeys
    /\ supabase = 0
    /\ openai = 0
    /\ instances = 0
    /\ chatLoop = "off"

Next ==
    \/ \E n \in IngestNames, c \in IngestContents : AddDocument(n, c)
    \/ MetadataInsert
    \/ SplitStep
    \/ Embed
    \/ BulkInsert

Spec == Init /\ [][Next]_vars

\* ------------------------------------------------------------- the split step alone
\* addDocument of any text, at its step 2
SplitInit ==
    /\ content \in Strings(ContentChar, MaxSplitLen)
    /\ name = <<"n">>
    /\ documents = {[id |-> 1, name |-> name, content |-> content]}
    /\ document_sections = <<>>
    /\ nextId = 2
    /\ op = "addDocument"
    /\ pc = "Split"
    /\ calls = <<[api |-> "documents.insert", ok |-> TRUE]>>
    /\ outcome = None
    /\ documentId = 1
    /\ sections = <<>>
    /\ sectionData = <<>>
    /\ i = 0
    /\ identifier = <<>>
    /\ query = <<>>
    /\ relevantSections = Missing
    /\ context = EmptyString
    /\ contextSnippets = <<>>
    /\ pending = {}
    /\ queryEmbedding = <<>>
    /\ matchThreshold = 0
    /\ matchCount = 0
    /\ caller = "none"
    /\ exitCode = -1
    /\ components = Components
    /\ config = RequiredKeys
    /\ supabase = 0
    /\ openai = 0
    /\ instances = 0
    /\ chatLoop = "off"

SplitNext == SplitStep

SplitSpec == SplitInit /\ [][SplitNext]_vars

\* ------------------------------------------------------------- lookups by name or id
FindNames == {<<"s">>, <<"2", "s">>}

FindContents == {<<"s">>}

Identifiers == Strings(IdChar, MaxIdLen)

FindNext ==
    \/ \E n \in FindNames, c \in FindContents : AddDocument(n, c)
    \/ MetadataInsert
    \/ SplitStep
    \/ Embed
    \/ BulkInsert
    \/ \E ident \in Identifiers : FindDocumentByNameOrId(ident)

FindSpec == Init /\ [][FindNext]_vars

\* ------------------------------------------------------------- answers
GenNames == {<<"s">>, <<"n">>}

\* generateResponse reads the documents, not their sections: a content without
\* chunks keeps the table empty
GenContents == {<<>>}

Queries == {<<"s">>}

\* a match names a document the store may hold, or one it does not
Matches == [document_id : 1..MaxDocs, content : {<<"s">>}]

MatchLists == {Missing} \cup {List(l) : l \in Strings(Matches, MaxMatches)}

GenNext ==
    \/ \E n \in GenNames, c \in GenContents : AddDocument(n, c)
    \/ MetadataInsert
    \/ SplitStep
    \/ \E q \in Queries, rs \in MatchLists : GenerateResponse(q, rs)
    \/ \E k \in 1..MaxMatches : LookupSettles(k)
    \/ ChatCompletion

GenSpec == Init /\ [][GenNext]_vars

\* every request is answered in the end, and an async function whose await has
\* resumed runs on
GenLiveSpec ==
    /\ GenSpec
    /\ WF_vars(\E k \in 1..MaxMatches : LookupSettles(k))
    /\ WF_vars(ChatCompletion)

\* ------------------------------------------------------------- the store gateway
StoreNames == {<<"s">>}

StoreContents == {<<"s">>, <<"n">> \o Separator \o <<"s", "n">>}

\* the embeddings, thresholds and limits a caller searches with
QueryEmbeddings == {Embedding(<<"s">>)}
SearchArguments == {<<Undefined, Undefined>>, <<Defined(9), Undefined>>, <<Defined(9), Defined(1)>>}

\* documents are added while the table holds fewer than MaxSections sections
AddWhileSmall(n, c) ==
    /\ Len(document_sections) < MaxSections
    /\ AddDocument(n, c)

StoreNext ==
    \/ \E n \in StoreNames, c \in StoreContents : AddWhileSmall(n, c)
    \/ MetadataInsert
    \/ SplitStep
    \/ Embed
    \/ BulkInsert
    \/ \E e \in QueryEmbeddings, a \in SearchArguments : SearchDocumentSections(e, a[1], a[2])
    \/ \E id \in 1..MaxDocs : DeleteDocumentById(id)
    \/ \E id \in 1..MaxDocs : GetDocumentDetails(id)

StoreSpec == Init /\ [][StoreNext]_vars

\* ------------------------------------------------------------- the chat pipeline
ChatNames == {<<"n">>}

\* two paragraphs with a blank line between them, and one paragraph
ChatContents == {<<"s", NL, NL, "n">>, <<"s">>}

ChatNext ==
    \/ \E n \in ChatNames, c \in ChatContents : AddDocument(n, c)
    \/ MetadataInsert
    \/ SplitStep
    \/ Embed
    \/ BulkInsert
    \/ \E q \in Queries : ProcessQuery(q)
    \/ EmbedQuery
    \/ SearchSections
    \/ Respond
    \/ \E k \in 1..DefaultMatchCount : LookupSettles(k)
    \/ ChatCompletion
    \/ ProcessQueryContinue

ChatSpec == Init /\ [][ChatNext]_vars

\* ------------------------------------------------------------- the clients alone
\* a process that starts with any of the keys configured
ClientInit ==
    /\ config \in SUBSET RequiredKeys
    /\ documents = {}
    /\ document_sections = <<>>
    /\ nextId = 1
    /\ op = "none"
    /\ pc = "idle"
    /\ calls = <<>>
    /\ outcome = None
    /\ name = <<>>
    /\ content = <<>>
    /\ documentId = 0
    /\ sections = <<>>
    /\ sectionData = <<>>
    /\ i = 0
    /\ identifier = <<>>
    /\ query = <<>>
    /\ relevantSections = Missing
    /\ context = EmptyString
    /\ contextSnippets = <<>>
    /\ pending = {}
    /\ queryEmbedding = <<>>
    /\ matchThreshold = 0
    /\ matchCount = 0
    /\ caller = "none"
    /\ exitCode = -1
    /\ components = Components
    /\ supabase = 0
    /\ openai = 0
    /\ instances = 0
    /\ chatLoop = "off"

ClientNext ==
    \/ GetSupabaseClient
    \/ GetOpenAIClient
    \/ \E configData \in SUBSET RequiredKeys : SaveConfig(configData)
    \/ ClearConfig

ClientSpec == ClientInit /\ [][ClientNext]_vars

\* ------------------------------------------------------------- the command line
CliNames == {<<"s">>}

CliContents == {<<"s">>}

\* an id and a name
CliIdentifiers == {<<"1">>, <<"s">>}

\* a machine with any of the keys configured and any of the components set up
CliInit ==
    /\ config \in SUBSET RequiredKeys
    /\ components \in SUBSET Components
    /\ documents = {}
    /\ document_sections = <<>>
    /\ nextId = 1
    /\ op = "none"
    /\ pc = "idle"
    /\ calls = <<>>
    /\ outcome = None
    /\ name = <<>>
    /\ content = <<>>
    /\ documentId = 0
    /\ sections = <<>>
    /\ sectionData = <<>>
    /\ i = 0
    /\ identifier = <<>>
    /\ query = <<>>
    /\ relevantSections = Missing
    /\ context = EmptyString
    /\ contextSnippets = <<>>
    /\ pending = {}
    /\ queryEmbedding = <<>>
    /\ matchThreshold = 0
    /\ matchCount = 0
    /\ caller = "none"
    /\ exitCode = -1
    /\ supabase = 0
    /\ openai = 0
    /\ instances = 0
    /\ chatLoop = "off"

CliNext ==
    \/ \E cmd \in Commands, ident \in CliIdentifiers : Command(cmd, ident)
    \/ CheckDatabaseSetup
    \/ CommandContinue
    \/ \E n \in CliNames, c \in CliContents : AddFile(n, c)
    \/ MetadataInsert
    \/ SplitStep
    \/ Embed
    \/ BulkInsert
    \/ ListDocs
    \/ FindForDelete
    \/ DetailsForDelete
    \/ ConfirmedDelete

CliSpec == CliInit /\ [][CliNext]_vars

\* ------------------------------------------------------------- the start without a command
\* what the user types at the prompt of the chat
ExitInputs == {<<"e", "x", "i", "t">>}

StartNext ==
    \/ Start
    \/ ConfigureAtStart
    \/ CheckAtStart
    \/ SetupAtStart
    \/ StartContinue
    \/ ChatAtStart
    \/ \E input \in ExitInputs, answer \in PromptOutcomes : ChatInput(input, answer)
    \/ StartReturns

StartSpec == CliInit /\ [][StartNext]_vars

\* ------------------------------------------------------------- the chat loop
LoopNames == {<<"n">>}

LoopContents == {<<"s">>}

\* exit and add as typed, with blanks and capitals, and two questions
LoopInputs ==
    { <<"e", "x", "i", "t">>,
      <<SP, "E", "x", "I", "T", NL>>,
      <<"a", "d", "d">>,
      <<"A", "D", "d", SP>>,
      <<"s">>,
      <<"e", "x", "i", "t", "s">> }

\* startChatLoop() of a process that has passed the checks of the start
EnterChat ==
    /\ chatLoop = "off"
    /\ StartChatLoop

\* documents are added while the store holds fewer than MaxDocs of them
AddInChat(n, c) ==
    /\ Cardinality(documents) < MaxDocs
    /\ HandleAddDocument(n, c)

LoopNext ==
    \/ EnterChat
    \/ \E input \in LoopInputs, answer \in PromptOutcomes : ChatInput(input, answer)
    \/ Ask
    \/ EmbedQuery
    \/ SearchSections
    \/ Respond
    \/ \E k \in 1..DefaultMatchCount : LookupSettles(k)
    \/ ChatCompletion
    \/ ProcessQueryContinue
    \/ \E n \in LoopNames, c \in LoopContents : AddInChat(n, c)
    \/ MetadataInsert
    \/ SplitStep
    \/ Embed
    \/ BulkInsert
    \/ HandleAddDocumentReturns

\* every request is answered in the end, and an async function whose await has
\* resumed runs on
LoopSpec ==
    /\ Init
    /\ [][LoopNext]_vars
    /\ WF_vars(Ask)
    /\ WF_vars(EmbedQuery)
    /\ WF_vars(SearchSections)
    /\ WF_vars(Respond)
    /\ WF_vars(\E k \in 1..DefaultMatchCount : LookupSettles(k))
    /\ WF_vars(ChatCompletion)
    /\ WF_vars(ProcessQueryContinue)

\* ------------------------------------------------------------- C1
\* Paragraphs of a text: the maximal runs of lines that are not blank.
RECURSIVE LinesFrom(_, _, _)
LinesFrom(str, p, q) ==
    IF q > Len(str)
    THEN << SubSeq(str, p, Len(str)) >>
    ELSE IF str[q] = NL
         THEN << SubSeq(str, p, q - 1) >> \o LinesFrom(str, q + 1, q + 1)
         ELSE LinesFrom(str, p, q + 1)

Lines(str) == LinesFrom(str, 1, 1)

BlankLine(line) == \A k \in 1..Len(line) : IsWhitespace(line[k])

ParagraphCount(str) ==
    LET ls == Lines(str)
    IN  Cardinality({k \in 1..Len(ls) :
                        ~BlankLine(ls[k]) /\ (k = 1 \/ BlankLine(ls[k - 1]))})

\* C1: the split step yields one chunk per paragraph of the content, the
\* paragraphs being what runs of one or more blank lines separate.
C1_SplitAtBlankLines ==
    (op = "addDocument" /\ pc \in {"Embed", "Done"}) =>
        Len(sections) = ParagraphCount(content)

\* ------------------------------------------------------------- C2 .. C6
SectionsOf(id) == SelectSeq(document_sections, LAMBDA row : row.document_id = id)

HasDocument(id) == \E d \in documents : d.id = id

HasNonBlankLine(text) == \E k \in 1..Len(text) : ~IsWhitespace(text[k])

Ran(handler) == op = handler /\ pc \in {"Done", "Failed"}

FailedCall(api) == \E k \in 1..Len(calls) : calls[k].api = api /\ ~calls[k].ok

Issued(api) == \E k \in 1..Len(calls) : calls[k].api = api

\* C2: an addDocument of a content with a non-blank line in which the metadata
\* insert, every embedding call and the section insert succeed returns the id the
\* store gave the document row, and the store holds as many sections of that
\* document as the split of the content has chunks.
C2_SectionsMatchChunks ==
    (/\ Ran("addDocument")
     /\ HasNonBlankLine(content)
     /\ \A k \in 1..Len(calls) : calls[k].ok) =>
        /\ pc = "Done"
        /\ outcome.kind = "returned"
        /\ outcome.value = documentId
        /\ [id |-> documentId, name |-> name, content |-> content] \in documents
        /\ Len(SectionsOf(documentId)) = Len(SplitSections(content))

C2_Witness ==
    /\ Ran("addDocument")
    /\ pc = "Done"
    /\ HasNonBlankLine(content)
    /\ Len(SectionsOf(documentId)) = 3
    /\ documentId = 2

\* C3: an addDocument of a content that is only blank lines or white space, once
\* its document row is inserted, returns the id of that row without an embedding
\* call, without a section insert and without an error.
C3_BlankContentSucceeds ==
    (/\ Ran("addDocument")
     /\ ~HasNonBlankLine(content)
     /\ calls[1].ok) =>
        /\ pc = "Done"
        /\ outcome.kind = "returned"
        /\ outcome.value = documentId
        /\ [id |-> documentId, name |-> name, content |-> content] \in documents
        /\ ~Issued("embeddings.create")
        /\ ~Issued("document_sections.insert")
        /\ SectionsOf(documentId) = <<>>

C3_Witness ==
    /\ Ran("addDocument")
    /\ pc = "Done"
    /\ Len(content) > 1
    /\ ~HasNonBlankLine(content)
    /\ HasDocument(documentId)

\* C4: when an embedding call of addDocument fails, the call throws the embedding
\* error with the number of the chunk that failed, no section of the document is
\* in the store, no section insert was issued, and the document row is there.
C4_EmbedFailureAborts ==
    (op = "addDocument" /\ FailedCall("embeddings.create")) =>
        /\ pc = "Failed"
        /\ outcome.kind = "threw"
        /\ outcome.message = "Failed to generate embedding for section"
        /\ outcome.detail = Len(sectionData) + 1
        /\ calls[Len(calls)].input = sections[outcome.detail]
        /\ ~Issued("document_sections.insert")
        /\ SectionsOf(documentId) = <<>>
        /\ HasDocument(documentId)

C4_Witness ==
    /\ op = "addDocument"
    /\ pc = "Failed"
    /\ FailedCall("embeddings.create")
    /\ outcome.detail = 2
    /\ Len(sections) = 3

\* C5: when the section insert of addDocument returns an error, the call returns
\* no id: it throws the section-insert error, and the document row is in the
\* store with no section, as after an embedding failure.
C5_SectionInsertFailureSurfaces ==
    (op = "addDocument" /\ FailedCall("document_sections.insert")) =>
        /\ pc = "Failed"
        /\ outcome.kind = "threw"
        /\ outcome.message = "Failed to insert document sections"
        /\ SectionsOf(documentId) = <<>>
        /\ HasDocument(documentId)

C5_Witness ==
    /\ op = "addDocument"
    /\ pc = "Failed"
    /\ FailedCall("document_sections.insert")
    /\ Len(sectionData) = 2
    /\ HasDocument(documentId)

\* C6: when the metadata insert of addDocument fails, the call throws the
\* metadata error and that is all: the step leaves the store as it was, and the
\* call has no document id, has split nothing, and has issued no other request.
MetadataInsertFailed == op = "addDocument" /\ FailedCall("documents.insert")

C6_MetadataFailureIsTerminal ==
    /\ [](MetadataInsertFailed =>
            /\ pc = "Failed"
            /\ outcome.kind = "threw"
            /\ outcome.message = "Failed to insert document metadata"
            /\ Len(calls) = 1
            /\ documentId = 0
            /\ sections = <<>>
            /\ sectionData = <<>>)
    /\ [][MetadataInsertFailed' => UNCHANGED storeVars]_vars

C6_Witness ==
    /\ MetadataInsertFailed
    /\ pc = "Failed"
    /\ documents # {}

\* ------------------------------------------------------------- C7 .. C9
\* C7: for an identifier that parseInt reads as an integer n, the call issues the
\* id query alone, and when the store answers it the call returns n if a document
\* has id n and throws the not-found error if none has.
C7_IntegerIdentifier ==
    (Ran("findDocumentByNameOrId") /\ ~parseInt(identifier).nan) =>
        LET n == parseInt(identifier).value
        IN  /\ Len(calls) = 1
            /\ calls[1].api = "documents.select.id"
            /\ calls[1].ok =>
                IF HasDocument(n)
                THEN outcome.kind = "returned" /\ outcome.value = n
                ELSE /\ outcome.kind = "threw"
                     /\ outcome.message = "Document not found with ID"

C7_Witness ==
    /\ Ran("findDocumentByNameOrId")
    /\ identifier = <<"2">>
    /\ outcome.kind = "returned"
    /\ outcome.value = 2

C7_WitnessNotFound ==
    /\ Ran("findDocumentByNameOrId")
    /\ identifier = <<"2">>
    /\ documents # {}
    /\ outcome.kind = "threw"
    /\ calls[1].ok

\* a string that is an integer literal: digits only, after at most one sign, white
\* space around them set aside
IsIntegerLiteral(str) ==
    LET t == trim(str)
        digits == IF t # <<>> /\ Head(t) \in {"-", "+"} THEN Tail(t) ELSE t
    IN  digits # <<>> /\ \A k \in 1..Len(digits) : IsDigit(digits[k])

NotFoundMessages == {"Document not found with ID", "Document not found with name"}

\* C8: for an identifier that is a name (not empty, not an integer literal), when
\* the store answers, the call returns the id of the one document of that name,
\* throws the not-found error when no document has the name, and throws the
\* ambiguous-name error when two or more have it.
C8_NameIdentifier ==
    (/\ Ran("findDocumentByNameOrId")
     /\ identifier # <<>>
     /\ ~IsIntegerLiteral(identifier)
     /\ \A k \in 1..Len(calls) : calls[k].ok) =>
        LET named == DocumentsByName(identifier)
        IN  /\ Cardinality(named) = 1 =>
                /\ outcome.kind = "returned"
                /\ outcome.value = (CHOOSE d \in named : TRUE).id
            /\ named = {} =>
                /\ outcome.kind = "threw"
                /\ outcome.message \in NotFoundMessages
            /\ Cardinality(named) > 1 =>
                /\ outcome.kind = "threw"
                /\ outcome.message = "Multiple documents found with name"

\* C9: every call issues exactly one of the two lookups, the id query when
\* parseInt reads a number and the name query when it does not.
C9_OneLookup ==
    Ran("findDocumentByNameOrId") =>
        /\ Len(calls) = 1
        /\ calls[1].api =
            IF parseInt(identifier).nan THEN "documents.select.name" ELSE "documents.select.id"

C9_Witness ==
    /\ Ran("findDocumentByNameOrId")
    /\ identifier = <<"2", "s">>
    /\ DocumentsByName(identifier) # {}
    /\ calls[1].ok
    /\ outcome.kind = "threw"
    /\ outcome.message = "Document not found with ID"

\* ------------------------------------------------------------- C10
NoMatches == ~relevantSections.defined \/ relevantSections.list = <<>>

\* C10: a generateResponse given no match, an empty list or none at all, looks up
\* no document, and the context it sends to the model is the fixed placeholder,
\* never the empty string.
C10_PlaceholderContext ==
    (op = "generateResponse" /\ NoMatches) =>
        /\ pc # "Lookups"
        /\ ~Issued("getDocDetailsFn")
        /\ \A k \in 1..Len(calls) :
            calls[k].api = "chat.completions.create" =>
                /\ calls[k].context = Placeholder
                /\ calls[k].context # EmptyString

C10_Witness ==
    /\ Ran("generateResponse")
    /\ ~relevantSections.defined
    /\ documents # {}
    /\ Issued("chat.completions.create")
    /\ pc = "Done"

C10_WitnessEmptyList ==
    /\ Ran("generateResponse")
    /\ relevantSections = List(<<>>)
    /\ Issued("chat.completions.create")

\* ------------------------------------------------------------- C11, C12
\* generateResponse has all its lookups behind it
Assembled ==
    /\ op = "generateResponse"
    /\ pc \in {"ModelCall", "Done", "Failed"}
    /\ relevantSections.defined
    /\ relevantSections.list # <<>>
    /\ context.text = Header.text

\* what the lookup of match k settled to
Settlement(k) ==
    CHOOSE entry \in {calls[j] : j \in 1..Len(calls)} :
        entry.api = "getDocDetailsFn.settled" /\ entry.index = k

\* C11: whichever lookups throw or return nothing, the assembled context holds
\* one snippet per match, in it the content of the match, with the name of the
\* document when the lookup gave one and the raw document_id when it did not.
C11_FailedLookupsDegrade ==
    Assembled =>
        /\ Len(context.snippets) = Len(relevantSections.list)
        /\ \A k \in 1..Len(relevantSections.list) :
            LET match == relevantSections.list[k]
                snippet == context.snippets[k]
            IN  /\ snippet.content = match.content
                /\ IF Settlement(k).kind = "document"
                   THEN /\ snippet.label = "From document \"name\":"
                        /\ snippet.name = Settlement(k).name
                        /\ \E d \in documents : d.id = match.document_id /\ d.name = snippet.name
                   ELSE /\ snippet.label \in {"From document ID id:",
                                              "From document ID id (details unavailable):"}
                        /\ snippet.id = match.document_id

C11_Witness ==
    /\ Assembled
    /\ pc = "Done"
    /\ Len(relevantSections.list) = 2
    /\ Settlement(1).kind = "threw"
    /\ Settlement(2).kind = "document"

\* C12: the assembled context is the snippets of the matches in the order of the
\* matches, the same for every order in which the lookups settle.
C12_MatchOrder ==
    Assembled =>
        context.snippets =
            [k \in 1..Len(relevantSections.list) |->
                Snippet(relevantSections.list[k], Settlement(k))]

C12_Witness ==
    /\ Assembled
    /\ CompletionOrder(calls) = <<2, 1>>
    /\ relevantSections.list[1].document_id # relevantSections.list[2].document_id
    /\ Settlement(1).kind = "document"
    /\ Settlement(2).kind = "nothing"

\* ------------------------------------------------------------- C13
\* the request a handler issued last
LastCall == calls[Len(calls)]

\* C13: searchDocumentSections sends the store the embedding, the threshold and
\* the limit it was called with (0.7 and 5 when left out) and returns the list the
\* store answered; that list has at most match_count results, each of similarity at
\* least match_threshold, in descending order of similarity.
C13_SearchContract ==
    Ran("searchDocumentSections") =>
        /\ LastCall.api = "rpc.match_document_sections"
        /\ LastCall.params = [query_embedding |-> queryEmbedding,
                              match_threshold |-> matchThreshold,
                              match_count |-> matchCount]
        /\ outcome.kind = "returned" =>
            /\ outcome.value = IF LastCall.data.defined THEN LastCall.data.list ELSE <<>>
            /\ Len(outcome.value) <= matchCount
            /\ \A k \in 1..Len(outcome.value) :
                /\ outcome.value[k].similarity >= matchThreshold
                /\ \E j \in 1..Len(document_sections) :
                    /\ document_sections[j].document_id = outcome.value[k].document_id
                    /\ document_sections[j].content = outcome.value[k].content
            /\ \A k \in 1..Len(outcome.value) - 1 :
                outcome.value[k].similarity >= outcome.value[k + 1].similarity

\* the defaults: two results of different similarity, a third section below the threshold
C13_Witness ==
    /\ Ran("searchDocumentSections")
    /\ outcome.kind = "returned"
    /\ matchThreshold = DefaultMatchThreshold
    /\ matchCount = DefaultMatchCount
    /\ Len(outcome.value) = 2
    /\ outcome.value[1].similarity > outcome.value[2].similarity
    /\ Len(document_sections) = 3

\* the caller's threshold and limit: one result where two sections reach the threshold
C13_WitnessLimit ==
    /\ Ran("searchDocumentSections")
    /\ outcome.kind = "returned"
    /\ matchThreshold = 9
    /\ matchCount = 1
    /\ Len(outcome.value) = 1
    /\ Len(document_sections) = 2
    /\ document_sections[1].content = document_sections[2].content

\* ------------------------------------------------------------- C14
DeletedDocument(id) ==
    /\ op = "deleteDocumentById"
    /\ pc = "Done"
    /\ documentId = id

NoSectionOf(id) == \A k \in 1..Len(document_sections) : document_sections[k].document_id # id

SearchOmits(id) ==
    (Ran("searchDocumentSections") /\ outcome.kind = "returned") =>
        \A k \in 1..Len(outcome.value) : outcome.value[k].document_id # id

\* C14: once deleteDocumentById(id) has succeeded, no section with document_id = id
\* is in the store, and no later search returns one, for as long as no new document
\* is given that id.
C14_DeleteRemovesSections ==
    \A id \in 1..MaxDocs :
        [](DeletedDocument(id) =>
            /\ NoSectionOf(id)
            /\ [](~HasDocument(id) => NoSectionOf(id) /\ SearchOmits(id)))

\* a document that was there is deleted and the sections of another stay
C14_Witness ==
    /\ \E id \in 1..MaxDocs : DeletedDocument(id) /\ id < nextId /\ ~HasDocument(id)
    /\ document_sections # <<>>

\* a search that returns matches after a document was deleted
C14_WitnessSearch ==
    /\ Ran("searchDocumentSections")
    /\ outcome.kind = "returned"
    /\ outcome.value # <<>>
    /\ \E id \in 1..MaxDocs : id < nextId /\ ~HasDocument(id)

\* ------------------------------------------------------------- C20
NotFoundErrors == {"Document not found for ID",
                   "Document not found for ID (query returned null)"}

ReadErrors == {"Failed to fetch document details for ID",
               "An unexpected error occurred fetching document details"}

\* C20: getDocumentDetails(id) returns the name and content of the document with
\* that id; it throws a not-found error when no document has the id and a different,
\* read error on any other failure of the store; it never returns without a document.
C20_DetailsOrError ==
    Ran("getDocumentDetails") =>
        /\ outcome.kind \in {"returned", "threw"}
        /\ outcome.kind = "returned" =>
            /\ LastCall.response = "row"
            /\ \E d \in documents :
                /\ d.id = documentId
                /\ outcome.value = [name |-> d.name, content |-> d.content]
        /\ LastCall.response = "row" => outcome.kind = "returned"
        /\ ~HasDocument(documentId) => outcome.kind = "threw"
        /\ LastCall.response = "PGRST116" =>
            /\ outcome.kind = "threw"
            /\ outcome.message \in NotFoundErrors
            /\ outcome.detail = documentId
        /\ LastCall.response \in {"error", "rejected"} =>
            /\ outcome.kind = "threw"
            /\ outcome.message \in ReadErrors

C20_Witness ==
    /\ Ran("getDocumentDetails")
    /\ outcome.kind = "returned"
    /\ HasDocument(documentId)

C20_WitnessNotFound ==
    /\ Ran("getDocumentDetails")
    /\ ~HasDocument(documentId)
    /\ documents # {}
    /\ outcome.kind = "threw"
    /\ outcome.message = "Document not found for ID"

C20_WitnessReadError ==
    /\ Ran("getDocumentDetails")
    /\ HasDocument(documentId)
    /\ outcome.kind = "threw"
    /\ outcome.message = "Failed to fetch document details for ID"

\* ------------------------------------------------------------- C15
\* "Alpha fact.\n\nBeta fact.": the paragraph s, a blank line, the paragraph n
AlphaBeta == <<"s", NL, NL, "n">>
Alpha == <<"s">>
Beta == <<"n">>

\* the document notes.txt is in the store, alone and with its sections inserted
NotesIngested ==
    /\ \E d \in documents : documents = {d} /\ d.content = AlphaBeta
    /\ document_sections # <<>>

\* C15: ingesting notes.txt with the content "Alpha fact.\n\nBeta fact." stores
\* the two sections "Alpha fact." and "Beta fact."; a query for which the search
\* answers one match, of similarity 0.9, gets the section "Alpha fact.", and the
\* context sent to the model holds the snippet of document "notes.txt" with the
\* content "Alpha fact.".
C15_EndToEnd ==
    /\ (op = "addDocument" /\ pc = "Done" /\ content = AlphaBeta) =>
            [k \in 1..Len(SectionsOf(documentId)) |-> SectionsOf(documentId)[k].content]
                = <<Alpha, Beta>>
    /\ (/\ op = "processQuery"
        /\ pc = "Done"
        /\ NotesIngested
        /\ outcome # Returned(Apology)
        /\ Len(relevantSections.list) = 1
        /\ relevantSections.list[1].similarity = 9) =>
            /\ relevantSections.list[1].content = Alpha
            /\ LastCall.context.snippets =
                <<[label |-> "From document \"name\":", name |-> <<"n">>, id |-> 0,
                   content |-> Alpha]>>

\* ------------------------------------------------------------- C16
\* the requests of one kind in the log
CallsTo(api) == SelectSeq(calls, LAMBDA call : call.api = api)

\* C16: processQuery asks for the embedding of the query once; when that request
\* fails it sends no search and no model request and returns its error message.
C16_EmbeddingFailureStops ==
    (caller = "processQuery" \/ op = "processQuery") =>
        /\ Len(CallsTo("embeddings.create")) <= 1
        /\ (op = "processQuery" /\ pc = "Done") => Len(CallsTo("embeddings.create")) = 1
        /\ \A k \in 1..Len(calls) :
            calls[k].api = "embeddings.create" => k = 1 /\ calls[k].input = query
        /\ (Len(calls) > 1) => calls[1].ok
        /\ Issued("rpc.match_document_sections") =>
            CallsTo("rpc.match_document_sections")[1].params.query_embedding = Embedding(query)
        /\ FailedCall("embeddings.create") =>
            /\ ~Issued("rpc.match_document_sections")
            /\ ~Issued("getDocDetailsFn")
            /\ ~Issued("chat.completions.create")
            /\ op = "processQuery" => outcome = Returned(Apology)

C16_Witness ==
    /\ op = "processQuery"
    /\ pc = "Done"
    /\ FailedCall("embeddings.create")
    /\ outcome = Returned(Apology)
    /\ document_sections # <<>>

\* the whole pipeline ran: one embedding, one search, the lookups, one model request
C16_WitnessAnswered ==
    /\ op = "processQuery"
    /\ pc = "Done"
    /\ outcome = Returned("response.choices[0].message.content")
    /\ Len(relevantSections.list) = 2

\* ------------------------------------------------------------- C17
\* C17: generateResponse sends the model one request, after every lookup has
\* settled and with the context assembled from them; when the request fails it
\* throws 'Failed to generate response' and sends no second one.
C17_OneModelCall ==
    op = "generateResponse" =>
        /\ pc \in {"Call", "Lookups", "ModelCall"} => ~Issued("chat.completions.create")
        /\ pc \in {"Done", "Failed"} =>
            /\ Len(CallsTo("chat.completions.create")) = 1
            /\ LastCall.api = "chat.completions.create"
            /\ LastCall.context = context
            /\ LastCall.question = query
            /\ pending = {}
            /\ IF NoMatches
               THEN context = Placeholder
               ELSE /\ context.text = Header.text
                    /\ Len(context.snippets) = Len(relevantSections.list)
                    /\ Len(CallsTo("getDocDetailsFn.settled")) = Len(relevantSections.list)
            /\ IF LastCall.ok
               THEN pc = "Done" /\ outcome.kind = "returned"
               ELSE pc = "Failed" /\ outcome = Threw("Failed to generate response", 0)

C17_Witness ==
    /\ op = "generateResponse"
    /\ pc = "Failed"
    /\ Len(CallsTo("chat.completions.create")) = 1
    /\ Len(relevantSections.list) = 2

\* ------------------------------------------------------------- C18
\* a client, once created, stays the one its getter returns
ClientsKept ==
    /\ supabase # 0 => supabase' = supabase
    /\ openai # 0 => openai' = openai

\* a getter that throws leaves both caches and the number of clients as they were
FailureCachesNothing ==
    (op' \in {"getSupabaseClient", "getOpenAIClient"} /\ outcome'.kind = "threw") =>
        UNCHANGED <<supabase, openai, instances>>

\* C18: getSupabaseClient and getOpenAIClient each construct their client at most
\* once and return that same instance on every call; a call that throws for
\* missing configuration leaves nothing cached.
C18_ClientsCreatedOnce ==
    /\ [](/\ instances = (IF supabase # 0 THEN 1 ELSE 0) + (IF openai # 0 THEN 1 ELSE 0)
          /\ (Ran("getSupabaseClient") /\ outcome.kind = "returned") =>
                supabase # 0 /\ outcome.value = supabase
          /\ (Ran("getOpenAIClient") /\ outcome.kind = "returned") =>
                openai # 0 /\ outcome.value = openai
          /\ (Ran("getSupabaseClient") /\ outcome.kind = "threw") => supabase = 0
          /\ (Ran("getOpenAIClient") /\ outcome.kind = "threw") => openai = 0)
    /\ [][ClientsKept /\ FailureCachesNothing]_vars

\* both clients exist and a getter has just returned the cached one, the
\* configuration having been cleared since
C18_Witness ==
    /\ Ran("getSupabaseClient")
    /\ outcome = Returned(supabase)
    /\ calls = <<>>
    /\ supabase # 0
    /\ openai # 0
    /\ config = {}

\* a getter threw for missing configuration
C18_WitnessMissing ==
    /\ Ran("getOpenAIClient")
    /\ outcome = Threw("Missing OpenAI configuration.", 0)
    /\ "openaiApiKey" \notin config
    /\ supabase # 0


\* ------------------------------------------------------------- C19
PipelineHandlers ==
    {"addDocument", "listDocuments", "findDocumentByNameOrId", "deleteDocumentById"}

\* the command saw hasConfig() return true and checkDatabaseSetup return allExist
Gated ==
    /\ Len(calls) >= 2
    /\ calls[1] = [api |-> "hasConfig", ok |-> TRUE]
    /\ calls[2].api = "checkDatabaseSetup"
    /\ calls[2].ok
    /\ calls[2].allExist

\* the requests of the command's pipeline
PipelineRequests ==
    {k \in 1..Len(calls) : calls[k].api \notin {"hasConfig", "checkDatabaseSetup"}}

\* the command has learnt that a check failed
CheckFailed ==
    \/ Len(calls) >= 1 /\ calls[1] = [api |-> "hasConfig", ok |-> FALSE]
    \/ /\ Len(calls) >= 2
       /\ calls[2].api = "checkDatabaseSetup"
       /\ ~(calls[2].ok /\ calls[2].allExist)
       /\ ~(op = "checkDatabaseSetup" /\ pc \in {"Done", "Failed"})

\* C19: in the commands add, list and delete, addDocument, listDocuments,
\* findDocumentByNameOrId and deleteDocumentById are invoked, and send their
\* requests, only after hasConfig() returned true and checkDatabaseSetup()
\* returned allExist true; when either check fails the process exits with code 1
C19_CommandsGated ==
    /\ op \in PipelineHandlers => Gated /\ exitCode = -1
    /\ PipelineRequests # {} => Gated
    /\ CheckFailed => pc = "Exited" /\ exitCode = 1 /\ op \in Commands
    /\ exitCode = 1 => ~Gated

\* delete ran to its end behind both checks
C19_Witness ==
    /\ op = "deleteDocumentById"
    /\ pc = "Done"
    /\ caller = "delete"
    /\ Gated

\* a command exited because a component was missing
C19_WitnessMissing ==
    /\ pc = "Exited"
    /\ exitCode = 1
    /\ Len(calls) = 2
    /\ calls[2].ok
    /\ ~calls[2].allExist

\* a command exited because a key was missing
C19_WitnessNoConfig ==
    /\ pc = "Exited"
    /\ exitCode = 1
    /\ calls = <<[api |-> "hasConfig", ok |-> FALSE]>>

\* ------------------------------------------------------------- C21
\* the delete command, running or just ended
InDelete == caller = "delete" \/ (op = "delete" /\ pc = "Exited")

Confirmed == [api |-> "inquirer.prompt", ok |-> TRUE, answer |-> "yes"]

\* every delete request of the command follows the user's yes, the command
\* awaits deleteDocumentById only for a document that is there, and a prompt that
\* was not answered yes ends the command with no delete request
DeleteBehindConfirmation ==
    /\ \A k \in 1..Len(calls) :
        calls[k].api = "documents.delete" =>
            /\ k > 1
            /\ calls[k - 1] = Confirmed
            /\ calls[k].id = documentId
            /\ \E j \in 1..(k - 1) : calls[j].api = "documents.select.single"
            /\ \E j \in 1..(k - 1) :
                calls[j].api \in {"documents.select.id", "documents.select.name"} /\ calls[j].ok
    /\ (caller = "delete" /\ op = "deleteDocumentById" /\ pc = "Call") =>
            HasDocument(documentId) /\ LastCall = Confirmed
    /\ (LastCall.api = "inquirer.prompt" /\ ~LastCall.ok) =>
            pc = "Exited" /\ ~Issued("documents.delete")

\* the store changes only in the call of deleteDocumentById, and a lookup that
\* failed ends the command
StoreKeptUnlessConfirmed ==
    caller = "delete" =>
        /\ storeVars' # storeVars => op' = "deleteDocumentById" /\ LastCall = Confirmed
        /\ (op = "findDocumentByNameOrId" /\ pc = "Failed") => pc' = "Exited"

\* a failure to fetch the name leads to the prompt all the same
NameFailureGoesOn ==
    (caller = "delete" /\ op = "getDocumentDetails" /\ pc = "Failed") =>
        calls' = Append(calls, calls'[Len(calls')]) /\ calls'[Len(calls')].api = "inquirer.prompt"

\* C21: the delete command calls deleteDocumentById only after
\* findDocumentByNameOrId returned the id of a document that exists and the user
\* answered yes; when the lookup fails or the user declines, no delete is sent and
\* the store stays as it was; a failure to fetch the document's name does not end
\* the command.
C21_DeleteConfirmed ==
    /\ [](InDelete => DeleteBehindConfirmation)
    /\ [][StoreKeptUnlessConfirmed /\ NameFailureGoesOn]_vars

\* a document was deleted although its name could not be fetched
C21_Witness ==
    /\ op = "delete"
    /\ pc = "Exited"
    /\ Issued("documents.delete")
    /\ FailedCall("documents.select.single")
    /\ ~FailedCall("documents.delete")
    /\ ~HasDocument(documentId)

\* the user declined and the document is still there
C21_WitnessDeclined ==
    /\ op = "delete"
    /\ pc = "Exited"
    /\ LastCall.api = "inquirer.prompt"
    /\ LastCall.answer = "no"
    /\ HasDocument(documentId)

\* ------------------------------------------------------------- C22
\* C22: checkDatabaseSetup throws when one of its checks fails because of a
\* connection or permission problem, and it returns allExist true only when the
\* vector extension, the two tables and the match function all exist.
C22_SetupCheckStrict ==
    Ran("checkDatabaseSetup") =>
        /\ LastCall.failed # {} => outcome.kind = "threw"
        /\ (outcome.kind = "returned" /\ outcome.value.allExist) => components = Components

\* ------------------------------------------------------------- C23
EmbeddingCalls == CallsTo("embeddings.create")

\* C23: in step 3 of addDocument the embedding provider is called once per chunk,
\* in chunk order, each call after the one before it has answered; after the
\* first call that fails no further embedding call is made.
C23_EmbedSequential ==
    op = "addDocument" =>
        /\ Len(EmbeddingCalls) <= Len(sections)
        /\ \A k \in 1..Len(EmbeddingCalls) :
            /\ EmbeddingCalls[k].index = k - 1
            /\ EmbeddingCalls[k].input = sections[k]
            /\ ~EmbeddingCalls[k].ok => k = Len(EmbeddingCalls) /\ pc = "Failed"
        /\ pc = "Embed" => Len(EmbeddingCalls) = i
        /\ (pc = "BulkInsert" \/ Issued("document_sections.insert")) =>
            Len(EmbeddingCalls) = Len(sections)

\* the second of three chunks failed and the third was never sent
C23_Witness ==
    /\ op = "addDocument"
    /\ pc = "Failed"
    /\ Len(sections) = 3
    /\ Len(EmbeddingCalls) = 2
    /\ EmbeddingCalls[1].ok
    /\ ~EmbeddingCalls[2].ok

\* ------------------------------------------------------------- C24
\* the rows step 4 sends: one per chunk, in chunk order
ExpectedRows ==
    [k \in 1..Len(sections) |->
        [document_id |-> documentId, content |-> sections[k],
         embedding |-> Embedding(sections[k])]]

SectionInserts == CallsTo("document_sections.insert")

\* C24: one ingestion sends the document insert once and first, then one
\* embedding request per chunk, then at most one section insert, sent only after
\* every chunk was embedded; that insert carries one row per chunk, in chunk
\* order, with the id the document insert returned and the embedding of the
\* chunk's own content; no request is sent again after it failed.
C24_StagesInOrder ==
    op = "addDocument" =>
        /\ Len(CallsTo("documents.insert")) = (IF pc = "MetadataInsert" THEN 0 ELSE 1)
        /\ Len(SectionInserts) <= 1
        /\ calls = CallsTo("documents.insert") \o EmbeddingCalls \o SectionInserts
        /\ \A k \in 1..Len(calls) : ~calls[k].ok => k = Len(calls) /\ pc = "Failed"
        /\ pc \in {"Split", "Embed", "BulkInsert", "Done"} =>
            \E d \in documents : d.id = documentId /\ d.name = name /\ d.content = content
        /\ pc = "Split" => Len(calls) = 1
        /\ Len(SectionInserts) = 1 =>
            /\ Len(EmbeddingCalls) = Len(sections)
            /\ sections = SplitSections(content)
            /\ SectionInserts[1].rows = ExpectedRows
            /\ pc \in {"Done", "Failed"}
        /\ pc = "Done" => Len(SectionInserts) = (IF Len(sections) = 0 THEN 0 ELSE 1)

\* an ingestion of three chunks ran through all its stages
C24_Witness ==
    /\ op = "addDocument"
    /\ pc = "Done"
    /\ Len(sections) = 3
    /\ Len(calls) = 5
    /\ SectionInserts[1].rows = ExpectedRows

\* ------------------------------------------------------------- C25
Trimmed(text) == text # <<>> /\ trim(text) = text

\* C25: every chunk the split of addDocument produces, and every section content
\* the store holds, is non-empty and has no whitespace at its start or end.
C25_ChunksTrimmed ==
    /\ \A k \in 1..Len(sections) : Trimmed(sections[k])
    /\ \A k \in 1..Len(document_sections) : Trimmed(document_sections[k].content)

\* ------------------------------------------------------------- C26
\* the matches whose lookup has settled
SettledLookups ==
    IF relevantSections.defined
    THEN (1..Len(relevantSections.list)) \ pending
    ELSE {}

\* the model request comes after the settlement of every lookup
ModelCallAfterLookups ==
    \A k \in 1..Len(calls) :
        calls[k].api = "chat.completions.create" =>
            /\ pending = {}
            /\ \A m \in SettledLookups :
                \E j \in 1..(k - 1) :
                    calls[j].api = "getDocDetailsFn.settled" /\ calls[j].index = m
            /\ NoMatches \/ SettledLookups = 1..Len(relevantSections.list)

\* the snippet of a match is made of that match and of its own lookup
OwnSnippets ==
    pc \in {"Lookups", "ModelCall"} =>
        \A k \in SettledLookups :
            contextSnippets[k] = Snippet(relevantSections.list[k], Settlement(k))

\* a lookup that settles leaves the snippets of the other matches as they are
OthersUntouched ==
    (op = "generateResponse" /\ pc = "Lookups") =>
        \A k \in SettledLookups : contextSnippets'[k] = contextSnippets[k]

\* C26: generateResponse sends the model request only after every lookup has
\* settled, by success or by failure; once they have all settled the request is
\* sent, whichever of them failed; and a lookup that fails leaves the snippet of
\* every other match as it is.
C26_ModelCallAfterAllLookups ==
    /\ [](op = "generateResponse" => ModelCallAfterLookups /\ OwnSnippets)
    /\ [][OthersUntouched]_vars
    /\ ((op = "generateResponse" /\ pc = "Lookups") ~> Issued("chat.completions.create"))

\* the model was called after both lookups had thrown
C26_Witness ==
    /\ op = "generateResponse"
    /\ Issued("chat.completions.create")
    /\ Len(relevantSections.list) = 2
    /\ Settlement(1).kind = "threw"
    /\ Settlement(2).kind = "threw"

\* one lookup threw and the other match kept the name of its document
C26_WitnessOther ==
    /\ op = "generateResponse"
    /\ pc = "ModelCall"
    /\ Len(relevantSections.list) = 2
    /\ CompletionOrder(calls) = <<2, 1>>
    /\ Settlement(1).kind = "threw"
    /\ Settlement(2).kind = "document"
    /\ context.snippets[2].name = Settlement(2).name

\* ------------------------------------------------------------- C27
Chunks(d) == Len(SplitSections(d.content))

\* every document has all the sections of its content or none, and the document
\* of the ingestion that has just ended has none exactly when its content gave
\* no chunk or an embedding or the section insert failed
AllOrNothing ==
    /\ \A d \in documents : Len(SectionsOf(d.id)) \in {0, Chunks(d)}
    /\ (Ran("addDocument") /\ documentId # 0) =>
        \A d \in documents :
            d.id = documentId =>
                (Len(SectionsOf(d.id)) = 0 <=>
                    \/ Chunks(d) = 0
                    \/ FailedCall("embeddings.create")
                    \/ FailedCall("document_sections.insert"))

\* a later ingestion leaves the sections of the documents before it alone
EarlierSectionsKept ==
    \A d \in documents : d.id # documentId' => SectionsOf(d.id)' = SectionsOf(d.id)

\* C27: after any sequence of ingestions, each succeeding or failing at any
\* stage, every document in the store has no section or as many sections as its
\* content has chunks, never a part of them; it has none exactly when its split
\* gave no chunk or its embedding or its section insert failed.
C27_NoPartialSections ==
    /\ []AllOrNothing
    /\ [][EarlierSectionsKept]_vars

\* a document with all three sections beside one whose section insert failed
C27_Witness ==
    /\ Ran("addDocument")
    /\ FailedCall("document_sections.insert")
    /\ Len(sections) = 3
    /\ Len(SectionsOf(documentId)) = 0
    /\ \E d \in documents : Len(SectionsOf(d.id)) = 3

\* ------------------------------------------------------------- C28
\* every section belongs to a document that is in the store
OwnersPresent ==
    \A k \in 1..Len(document_sections) : HasDocument(document_sections[k].document_id)

\* the rows an insert adds name a document that is there before the insert
OwnerThereAtInsert ==
    Len(document_sections') > Len(document_sections) =>
        \A k \in (Len(document_sections) + 1)..Len(document_sections') :
            HasDocument(document_sections'[k].document_id)

\* C28: in every state that addDocument and deleteDocumentById can lead to, the
\* document_id of every stored section is the id of a document in the store: the
\* document is there when its sections are inserted, and a delete of the
\* document takes its sections with it.
C28_SectionsHaveOwner ==
    /\ []OwnersPresent
    /\ [][OwnerThereAtInsert]_vars

\* a document with sections was deleted while another keeps its sections
C28_Witness ==
    /\ \E id \in 1..MaxDocs : DeletedDocument(id) /\ id < nextId /\ ~HasDocument(id)
    /\ \E d \in documents : Len(SectionsOf(d.id)) > 1
    /\ \A d \in documents : Len(SectionsOf(d.id)) = Len(document_sections)

\* ------------------------------------------------------------- C29
\* the chat loop has just been started by the default action
LoopStarted ==
    /\ chatLoop = "running"
    /\ op = "startChatLoop"
    /\ pc = "idle"
    /\ Len(calls) >= 1
    /\ calls[1].api = "hasConfig"

\* the results of checkDatabaseSetup in the log, in order
SetupChecks == CallsTo("checkDatabaseSetup")

\* the default action went by what its checks reported
StartedAsReported ==
    LoopStarted =>
        /\ LastCall.api = "checkDatabaseSetup"
        /\ LastCall.ok
        /\ LastCall.allExist
        /\ Len(SetupChecks) = 2 =>
            /\ ~SetupChecks[1].allExist
            /\ \E k \in 1..Len(calls) : calls[k] = Confirmed
            /\ Issued("getSetupSql")

\* C29: the default action starts the chat loop only when the configuration is
\* present and the database components all exist; when checkDatabaseSetup reports
\* missing components, only after the user confirmed the automatic setup and
\* executeSetupSql reported success, which it does only when all components exist;
\* in every other case the process exits with code 1 and no chat loop.
C29_StartupGated ==
    /\ chatLoop = "running" => hasConfig /\ components = Components
    /\ (Ran("executeSetupSql") /\ outcome.value = TRUE) => components = Components
    /\ StartedAsReported
    /\ (op = "start" /\ pc = "Exited") => (exitCode = 1 <=> chatLoop = "off")

\* ------------------------------------------------------------- C30
ExitWord == <<"e", "x", "i", "t">>

AddWord == <<"a", "d", "d">>

\* the text is the word, whatever its capitals and the blanks around it
IsWord(text, word) == toLowerCase(trim(text)) = word

IsCommandWord(text) == IsWord(text, ExitWord) \/ IsWord(text, AddWord)

\* the texts that were sent to the embedding provider, the search and the model
SentTexts ==
    {calls[k].input : k \in {j \in 1..Len(calls) : calls[j].api = "embeddings.create"}}
    \cup {calls[k].params.query_embedding[2] :
            k \in {j \in 1..Len(calls) : calls[j].api = "rpc.match_document_sections"}}
    \cup {calls[k].question :
            k \in {j \in 1..Len(calls) : calls[j].api = "chat.completions.create"}}

PipelineFailed ==
    \/ FailedCall("embeddings.create")
    \/ FailedCall("rpc.match_document_sections")
    \/ FailedCall("chat.completions.create")

QueryReturned == caller = "none" /\ op = "processQuery" /\ pc = "Done"

\* processQuery settles by returning, the apology exactly when a stage failed, and
\* the loop is then at its prompt
ReturnsIntoLoop ==
    /\ op = "processQuery" => pc \in {"Call", "Done"}
    /\ QueryReturned =>
        /\ outcome.kind = "returned"
        /\ PipelineFailed <=> outcome = Returned(Apology)
        /\ chatLoop = "running"
        /\ ENABLED (\E input \in LoopInputs, answer \in PromptOutcomes : ChatInput(input, answer))

\* what processQuery works on is what was typed, and that is neither exit nor add
NoCommandAsQuery ==
    /\ \A text \in SentTexts : ~IsCommandWord(text)
    /\ caller = "processQuery" =>
        /\ calls[1].api = "inquirer.prompt"
        /\ query = calls[1].input
        /\ ~IsCommandWord(query)

\* the loop ends with the step that read exit or whose prompt was cancelled or
\* failed, and with no other step; once ended it stays ended
EndsOnExit ==
    /\ chatLoop = "running" =>
        (chatLoop' = "ended" <=>
            /\ Len(calls') = 1
            /\ calls'[1].api = "inquirer.prompt"
            /\ \/ calls'[1].answer \in {"tty error", "canceled"}
               \/ calls'[1].answer = "input" /\ IsWord(calls'[1].input, ExitWord))
    /\ chatLoop = "running" => chatLoop' \in {"running", "ended"}
    /\ chatLoop = "ended" => chatLoop' = "ended"

\* C30: in the chat loop processQuery never throws: when the embedding of the
\* query, the search or the generation fails it returns the fixed apology; every
\* query that is being processed comes back to the loop, which is then at its
\* prompt again; the loop ends only with the input exit (trimmed, in any capitals)
\* or a cancelled or failed prompt; and exit and add, however typed, are never sent
\* to the embedding provider, the search or the model as a query.
C30_ChatLoopGoesOn ==
    /\ [](ReturnsIntoLoop /\ NoCommandAsQuery)
    /\ [][EndsOnExit]_vars
    /\ (caller = "processQuery") ~> QueryReturned

\* the search failed, the apology came back and the loop goes on
C30_Witness ==
    /\ QueryReturned
    /\ chatLoop = "running"
    /\ FailedCall("rpc.match_document_sections")
    /\ outcome = Returned(Apology)
    /\ documents # {}

\* exit typed with capitals and blanks ended the loop
C30_WitnessExit ==
    /\ chatLoop = "ended"
    /\ calls[1].input = <<SP, "E", "x", "I", "T", NL>>

\* a question that begins with exit was answered by the model
C30_WitnessAnswered ==
    /\ QueryReturned
    /\ ~PipelineFailed
    /\ query = <<"e", "x", "i", "t", "s">>
    /\ Issued("chat.completions.create")
    /\ document_sections # <<>>

====
